---- MODULE Spec2Model ----
(***************************************************************************)
(* A model of nestor.keyword: the regex longest-match engine               *)
(* (regex_match_vocab, regex_thesaurus_normalizer, token_to_alias), the    *)
(* IOB labeller (iob_extractor) and the vocabulary-table builder           *)
(* (generate_vocabulary_df).                                               *)
(*                                                                         *)
(* Text is modelled at character level: a str is a sequence of             *)
(* one-character strings, "" is <<>>.  A pandas cell holding NaN is the    *)
(* value NaN below, which is no sequence of characters.                    *)
(***************************************************************************)
EXTENDS Integers, Sequences, FiniteSets, TLC

VARIABLES
    vocab,      \* vocab DataFrame handed to token_to_alias / iob_extractor: rows in index order
    raw_text,   \* pd.Series of documents (position = doc_id)
    out,        \* what the last call of the matching functions produced
    tex,        \* the TokenExtractor: fitted flag, feature names, _tf_tot, max_features
    disk,       \* the file system: path -> csv table or NoFile
    df_mem,     \* the analyst's in-memory vocabulary table (the last table returned)
    call,       \* the last generate_vocabulary_df call: its arguments and its outcome
    nsteps      \* the number of operations on the vocabulary table so far

vars == <<vocab, raw_text, out, tex, disk, df_mem, call, nsteps>>

matchVars == <<vocab, raw_text, out>>

tableVars == <<tex, disk, df_mem, call, nsteps>>

-----------------------------------------------------------------------------
(* Bounds of the model *)

MaxTextLen == 4

MaxVocab == 2

MaxSteps == 4

MaxTf == 2

-----------------------------------------------------------------------------
(* Strings *)

NaN == <<"NaN">>

EmptyStr == <<>>

\* the characters \w does not match, among the characters of the model
NonWordChars == {" ", "-"}

IsWordChar(c) == c \notin NonWordChars

\* \s, among the characters of the model
IsSpaceChar(c) == c = " "

RECURSIVE GCD(_, _)
GCD(a, b) == IF b = 0 THEN a ELSE GCD(b, a % b)

\* the float n / d, written as a fraction in lowest terms; 0 / 0 is NaN
Frac(n, d) ==
    IF d = 0 THEN NaN ELSE <<ToString(n \div GCD(n, d)), "/", ToString(d \div GCD(n, d))>>

RECURSIVE Join(_, _)
Join(parts, sep) ==
    IF parts = <<>> THEN <<>>
    ELSE IF Len(parts) = 1 THEN parts[1]
    ELSE parts[1] \o sep \o Join(Tail(parts), sep)

RECURSIVE Concat(_)
Concat(parts) == IF parts = <<>> THEN <<>> ELSE Head(parts) \o Concat(Tail(parts))

Range(s) == {s[i] : i \in DOMAIN s}

-----------------------------------------------------------------------------
(* DataFrame rows: tokens is the index, NE / alias / notes / score the columns *)

Row(t, ne, al) == [tokens |-> t, NE |-> ne, alias |-> al, notes |-> EmptyStr, score |-> Frac(0, 1)]

Tokens(df) == [i \in DOMAIN df |-> df[i].tokens]

\* Series.to_dict(): label -> value, a later row of the same label overwriting an earlier one
Lookup(df, col, t) ==
    LET last == CHOOSE i \in DOMAIN df :
                   /\ df[i].tokens = t
                   /\ \A j \in DOMAIN df : df[j].tokens = t => j <= i
    IN  df[last][col]

-----------------------------------------------------------------------------
(* The regex engine: re.compile of the pattern regex_match_vocab builds,   *)
(* and re's leftmost, ordered-alternation, non-overlapping matching.       *)

\* \b between text[p-1] and text[p] (p in 1..Len+1)
Boundary(text, p) ==
    LET before == p > 1 /\ IsWordChar(text[p - 1])
        after  == p <= Len(text) /\ IsWordChar(text[p])
    IN  before # after

LiteralAt(text, p, lit) ==
    /\ p + Len(lit) - 1 <= Len(text)
    /\ SubSeq(text, p, p + Len(lit) - 1) = lit

\* sorted(vocab_iter, key=len, reverse=True): stable, equal lengths keep their order
RECURSIVE InsertByLenAsc(_, _)
InsertByLenAsc(x, s) ==
    IF s = <<>> THEN <<x>>
    ELSE IF Len(Head(s)) <= Len(x) THEN <<Head(s)>> \o InsertByLenAsc(x, Tail(s))
    ELSE <<x>> \o s

RECURSIVE InsertByLen(_, _)
InsertByLen(x, s) ==
    IF s = <<>> THEN <<x>>
    ELSE IF Len(Head(s)) >= Len(x) THEN <<Head(s)>> \o InsertByLen(x, Tail(s))
    ELSE <<x>> \o s

RECURSIVE SortedByLen(_)
SortedByLen(keys) ==
    IF keys = <<>> THEN <<>>
    ELSE InsertByLen(keys[Len(keys)], SortedByLen(SubSeq(keys, 1, Len(keys) - 1)))

\* dict keys in insertion order, each once (first insertion keeps its place)
RECURSIVE DictKeys(_)
DictKeys(ts) ==
    IF ts = <<>> THEN <<>>
    ELSE LET init == DictKeys(SubSeq(ts, 1, Len(ts) - 1))
             x == ts[Len(ts)]
         IN  IF x \in Range(init) THEN init ELSE Append(init, x)

\* regex_match_vocab: the compiled pattern, as its kind and its ordered alternatives
regex_match_vocab(vocab_iter, tokenize) ==
    LET sort == SortedByLen(vocab_iter)
    IN  IF sort = <<>> /\ tokenize THEN [kind |-> "token", alts |-> <<>>]
        ELSE IF sort = <<>> THEN [kind |-> "never", alts |-> <<>>]
        ELSE IF tokenize THEN [kind |-> "vocab_or_token", alts |-> sort]
        ELSE [kind |-> "vocab", alts |-> sort]

\* \b(?:alt1|alt2|...)\b at p: the length of the first alternative, in order, that
\* matches with a boundary on both sides; 0 when none does
RECURSIVE AltAt(_, _, _)
AltAt(alts, text, p) ==
    IF alts = <<>> THEN 0
    ELSE IF LiteralAt(text, p, Head(alts)) /\ Boundary(text, p + Len(Head(alts)))
         THEN Len(Head(alts))
         ELSE AltAt(Tail(alts), text, p)

\* the mutant: the pattern without its leading \b
VocabAt_unanchored(alts, text, p) == AltAt(alts, text, p)

VocabAt(alts, text, p) == IF Boundary(text, p) THEN AltAt(alts, text, p) ELSE 0

\* the number of word characters from p on
RECURSIVE WordRun(_, _)
WordRun(text, p) ==
    IF p <= Len(text) /\ IsWordChar(text[p]) THEN 1 + WordRun(text, p + 1) ELSE 0

\* nestorParams.token_pattern, \b\w\w+\b, at p
token_pattern(text, p) ==
    IF Boundary(text, p) /\ WordRun(text, p) >= 2 THEN WordRun(text, p) ELSE 0

\* the length of the pattern's match at p, 0 for no match
MatchAt(rx, text, p) ==
    CASE rx.kind = "never" -> 0
      [] rx.kind = "vocab" -> VocabAt(rx.alts, text, p)
      [] rx.kind = "token" -> token_pattern(text, p)
      [] rx.kind = "vocab_or_token" ->
            IF VocabAt(rx.alts, text, p) > 0 THEN VocabAt(rx.alts, text, p)
            ELSE token_pattern(text, p)

\* re.finditer: the matches from p on, left to right, non-overlapping
RECURSIVE FindFrom(_, _, _)
FindFrom(rx, text, p) ==
    IF p > Len(text) THEN <<>>
    ELSE LET n == MatchAt(rx, text, p)
         IN  IF n > 0
             THEN <<[start |-> p, text |-> SubSeq(text, p, p + n - 1)]>>
                      \o FindFrom(rx, text, p + n)
             ELSE FindFrom(rx, text, p + 1)

finditer(rx, text) == FindFrom(rx, text, 1)

\* re.findall with the pattern's one group: the matched strings
findall(rx, text) == LET ms == finditer(rx, text) IN [i \in DOMAIN ms |-> ms[i].text]

\* re.sub(rx, lambda match: thesaurus.get(match.group(0)), text)
RECURSIVE SubFrom(_, _, _, _)
SubFrom(rx, thesaurus, text, p) ==
    IF p > Len(text) THEN <<>>
    ELSE LET n == MatchAt(rx, text, p)
         IN  IF n > 0
             THEN Lookup(thesaurus, "value", SubSeq(text, p, p + n - 1))
                      \o SubFrom(rx, thesaurus, text, p + n)
             ELSE <<text[p]>> \o SubFrom(rx, thesaurus, text, p + 1)

\* regex_thesaurus_normalizer on one string; a thesaurus is a sequence of
\* [tokens, value] in dict order
regex_thesaurus_normalizer(thesaurus, text) ==
    SubFrom(regex_match_vocab(DictKeys(Tokens(thesaurus)), FALSE), thesaurus, text, 1)

-----------------------------------------------------------------------------
(* token_to_alias *)

HasAlias(r) == r.alias # EmptyStr /\ r.alias # NaN

RECURSIVE AliasedRows(_)
AliasedRows(df) ==
    IF df = <<>> THEN <<>>
    ELSE (IF HasAlias(Head(df)) THEN <<Head(df)>> ELSE <<>>) \o AliasedRows(Tail(df))

\* the mutant keeps every row, those with an empty alias too
thes_dict_all(vocab_df) ==
    [i \in DOMAIN vocab_df |->
        [tokens |-> vocab_df[i].tokens,
         value |-> IF vocab_df[i].alias = NaN THEN EmptyStr ELSE vocab_df[i].alias]]

\* vocab[vocab.alias.replace("", np.nan).notna()].alias.to_dict()
thes_dict(vocab_df) ==
    LET kept == AliasedRows(vocab_df)
    IN  [i \in DOMAIN kept |-> [tokens |-> kept[i].tokens, value |-> kept[i].alias]]

token_to_alias(text_series, vocab_df) ==
    [d \in DOMAIN text_series |->
        regex_thesaurus_normalizer(thes_dict(vocab_df), text_series[d])]

\* the matches re.sub replaces, per document
token_to_alias_matches(text_series, vocab_df) ==
    [d \in DOMAIN text_series |->
        finditer(regex_match_vocab(DictKeys(Tokens(thes_dict(vocab_df))), FALSE),
                 text_series[d])]

-----------------------------------------------------------------------------
(* iob_extractor *)

\* nestorParams.holes
holes == {<<"X">>, <<"U">>}

\* str.lower on the characters of the model
LowerChar(c) == CASE c = "A" -> "a" [] c = "B" -> "b" [] OTHER -> c

Lower(text) == [i \in DOMAIN text |-> LowerChar(text[i])]

\* re.split(r"[_\s]", text): the pieces between separators, empty pieces included
RECURSIVE SplitFrom(_, _, _)
SplitFrom(text, p, piece) ==
    IF p > Len(text) THEN <<piece>>
    ELSE IF text[p] = "_" \/ IsSpaceChar(text[p])
         THEN <<piece>> \o SplitFrom(text, p + 1, <<>>)
         ELSE SplitFrom(text, p + 1, Append(piece, text[p]))

Split(text) == SplitFrom(text, 1, <<>>)

\* str.strip("-")
RECURSIVE LStrip(_)
LStrip(text) == IF text # <<>> /\ Head(text) = "-" THEN LStrip(Tail(text)) ELSE text

RECURSIVE RStrip(_)
RStrip(text) ==
    IF text # <<>> /\ text[Len(text)] = "-" THEN RStrip(SubSeq(text, 1, Len(text) - 1))
    ELSE text

Strip(text) == RStrip(LStrip(text))

\* vocab_df.NE.fillna("U").to_dict()
NE_thesaurus(vocab_df) ==
    [i \in DOMAIN vocab_df |->
        [tokens |-> vocab_df[i].tokens,
         value |-> IF vocab_df[i].NE = NaN THEN <<"U">> ELSE vocab_df[i].NE]]

\* Series.explode of a list cell: one row per element, one NaN row for an empty list
Explode(list) == IF list = <<>> THEN <<NaN>> ELSE list

\* the NE column of a span: the thesaurus substitution, then "U" unless a known NE
SpanNE(vocab_df, text) ==
    LET thes == NE_thesaurus(vocab_df)
        ne == IF text = NaN THEN NaN ELSE regex_thesaurus_normalizer(thes, text)
    IN  IF \E i \in DOMAIN thes : thes[i].value = ne THEN ne ELSE <<"U">>

\* beginning_token without the "B": every token keeps "I"
beginning_token_none(k) == "I"

\* beginning_token: the first row of each token_id group gets "B"
beginning_token(k) == IF k = 1 THEN "B" ELSE "I"

\* outside_token: a hole is "O"
outside_token(ne, iob) == IF ne \in holes THEN "O" ELSE iob

\* iob.str.cat(NE, sep="-", na_rep="").str.strip("-"), NE masked to NaN where iob is "O"
iob_label(ne, iob) ==
    LET masked == IF iob = "O" THEN NaN ELSE ne
    IN  Strip(<<iob>> \o <<"-">> \o (IF masked = NaN THEN <<>> ELSE masked))

\* the rows of tidy_tokens that one span explodes into, one per constituent token
SpanRows(vocab_df, doc_id, token_id, text) ==
    LET ne == SpanNE(vocab_df, text)
        pieces == IF text = NaN THEN <<NaN>> ELSE Split(text)
    IN  [k \in DOMAIN pieces |->
            [token_id |-> token_id,
             doc_id |-> doc_id,
             text |-> text,
             NE |-> ne,
             token |-> pieces[k],
             iob |-> outside_token(ne, beginning_token(k))]]

\* the spans of every document, in document order: [doc_id, text]
RECURSIVE TidySpans(_, _, _)
TidySpans(text_series, rx, d) ==
    IF d > Len(text_series) THEN <<>>
    ELSE LET found == Explode(findall(rx, Lower(text_series[d])))
         IN  [i \in DOMAIN found |-> [doc_id |-> d - 1, text |-> found[i]]]
                 \o TidySpans(text_series, rx, d + 1)

\* tidy_tokens: one row per constituent token of every span
tidy_tokens(text_series, vocab_df) ==
    LET rx_vocab == regex_match_vocab(DictKeys(Tokens(vocab_df)), TRUE)
        spans == TidySpans(text_series, rx_vocab, 1)
    IN  Concat([i \in DOMAIN spans |->
                   SpanRows(vocab_df, spans[i].doc_id, i - 1, spans[i].text)])

\* the frame iob_extractor returns: token, NE (the IOB label), doc_id
iob_extractor(text_series, vocab_df) ==
    LET tidy == tidy_tokens(text_series, vocab_df)
    IN  [i \in DOMAIN tidy |->
            [token |-> tidy[i].token,
             NE |-> iob_label(tidy[i].NE, tidy[i].iob),
             doc_id |-> tidy[i].doc_id]]

iob_columns == {"token", "NE", "doc_id"}

-----------------------------------------------------------------------------
(* TokenExtractor: ranks_, vocab_, scores_ *)

\* numpy argsort (ascending, ties in index order): the indices of xs by value
RECURSIVE InsertIdx(_, _, _)
InsertIdx(i, order, xs) ==
    IF order = <<>> THEN <<i>>
    ELSE IF xs[Head(order)] <= xs[i] THEN <<Head(order)>> \o InsertIdx(i, Tail(order), xs)
    ELSE <<i>> \o order

RECURSIVE ArgSortTo(_, _)
ArgSortTo(xs, n) == IF n = 0 THEN <<>> ELSE InsertIdx(n, ArgSortTo(xs, n - 1), xs)

argsort(xs) == ArgSortTo(xs, Len(xs))

Reverse(s) == [i \in DOMAIN s |-> s[Len(s) + 1 - i]]

SeqMax(xs) == CHOOSE m \in Range(xs) : \A x \in Range(xs) : x <= m

SeqMin(xs) == CHOOSE m \in Range(xs) : \A x \in Range(xs) : m <= x

\* TokenExtractor.ranks_: _tf_tot.argsort()[::-1], cut to max_features
ranks_(t) ==
    LET ranks == Reverse(argsort(t.tf_tot))
    IN  IF Len(ranks) > t.max_features THEN SubSeq(ranks, 1, t.max_features) ELSE ranks

\* TokenExtractor.vocab_: the feature names in rank order
vocab_(t) == LET ranks == ranks_(t) IN [k \in DOMAIN ranks |-> t.feats[ranks[k]]]

\* TokenExtractor.scores_: (scores - scores.min()) / (scores.max() - scores.min())
scores_(t) ==
    LET ranks == ranks_(t)
        scores == [k \in DOMAIN ranks |-> t.tf_tot[ranks[k]]]
        lo == SeqMin(scores)
        hi == SeqMax(scores)
    IN  [k \in DOMAIN scores |-> Frac(scores[k] - lo, hi - lo)]

-----------------------------------------------------------------------------
(* csv files *)

NoFile == [exists |-> FALSE, rows |-> <<>>]

File(rows) == [exists |-> TRUE, rows |-> rows]

Columns == {"NE", "alias", "notes", "score"}

\* DataFrame.to_csv: a NaN cell is written as the empty field
CsvCell(v) == IF v = NaN THEN EmptyStr ELSE v

to_csv(df) ==
    [i \in DOMAIN df |->
        [tokens |-> CsvCell(df[i].tokens), NE |-> CsvCell(df[i].NE),
         alias |-> CsvCell(df[i].alias), notes |-> CsvCell(df[i].notes),
         score |-> CsvCell(df[i].score)]]

\* the fields pd.read_csv reads as NaN (its default na_values), among the strings of the model
NaValues == {EmptyStr, <<"N", "A">>, <<"n", "a", "n">>, <<"n", "u", "l", "l">>}

ReadCell(c) == IF c \in NaValues THEN NaN ELSE c

\* pd.read_csv(path, index_col=0)
read_csv(rows) ==
    [i \in DOMAIN rows |->
        [tokens |-> ReadCell(rows[i].tokens), NE |-> ReadCell(rows[i].NE),
         alias |-> ReadCell(rows[i].alias), notes |-> ReadCell(rows[i].notes),
         score |-> ReadCell(rows[i].score)]]

\* DataFrame.fillna(""), every column
FillCell(v) == IF v = NaN THEN EmptyStr ELSE v

fillna(df) ==
    [i \in DOMAIN df |->
        [tokens |-> df[i].tokens, NE |-> FillCell(df[i].NE),
         alias |-> FillCell(df[i].alias), notes |-> FillCell(df[i].notes),
         score |-> FillCell(df[i].score)]]

-----------------------------------------------------------------------------
(* generate_vocabulary_df *)

NoneArg == [kind |-> "None"]

PathArg(p) == [kind |-> "Path", path |-> p]

StrArg(p) == [kind |-> "str", path |-> p]

FrameArg(df) == [kind |-> "DataFrame", df |-> df]

IsPathLike(a) == a.kind \in {"Path", "str"}

\* Path(a).is_file(), for a path-like a
is_file(a, d) == d[a.path].exists

Outcome(status, df, d) == [status |-> status, df |-> df, disk |-> d]

\* df[~df.tokens.duplicated(keep="first")]
RECURSIVE DropDuplicates(_)
DropDuplicates(df) ==
    IF df = <<>> THEN <<>>
    ELSE LET init == DropDuplicates(SubSeq(df, 1, Len(df) - 1))
             r == df[Len(df)]
         IN  IF \E i \in DOMAIN init : init[i].tokens = r.tokens THEN init
             ELSE Append(init, r)

\* the frame built from the extractor: one row per ranked token, NE, alias, notes ""
fresh_df(t) ==
    LET toks == vocab_(t)
        scores == scores_(t)
    IN  DropDuplicates([k \in DOMAIN toks |->
            [tokens |-> toks[k], NE |-> EmptyStr, alias |-> EmptyStr,
             notes |-> EmptyStr, score |-> scores[k]]])

HasLabel(other, t) == \E j \in DOMAIN other : other[j].tokens = t

\* a cell of other.reindex_like(self): NaN for a label other does not have
Reindexed(other, t, col) ==
    IF HasLabel(other, t) THEN other[CHOOSE j \in DOMAIN other : other[j].tokens = t][col]
    ELSE NaN

\* a cell after update: the non-NA value of other, else the cell of self
UpdatedCell(self_v, other_v) == IF other_v = NaN THEN self_v ELSE other_v

\* the rows of other whose label df does not have
RECURSIVE RowsNotIn(_, _)
RowsNotIn(other, df) ==
    IF other = <<>> THEN <<>>
    ELSE (IF HasLabel(df, Head(other).tokens) THEN <<>> ELSE <<Head(other)>>)
             \o RowsNotIn(Tail(other), df)

\* the mutant: an outer join, the rows only other has are appended
df_update_outer(df, other) ==
    [i \in DOMAIN df |->
        [tokens |-> df[i].tokens,
         NE |-> UpdatedCell(df[i].NE, Reindexed(other, df[i].tokens, "NE")),
         alias |-> UpdatedCell(df[i].alias, Reindexed(other, df[i].tokens, "alias")),
         notes |-> UpdatedCell(df[i].notes, Reindexed(other, df[i].tokens, "notes")),
         score |-> UpdatedCell(df[i].score, Reindexed(other, df[i].tokens, "score"))]]
        \o RowsNotIn(other, df)

\* the mutant: update without effect, the rebuilt rows stay as they are
df_update_none(df, other) == df

\* DataFrame.update(other): every column of self takes the non-NA values of other,
\* aligned on the index; the rows and the order of self are kept
df_update(df, other) ==
    [i \in DOMAIN df |->
        [tokens |-> df[i].tokens,
         NE |-> UpdatedCell(df[i].NE, Reindexed(other, df[i].tokens, "NE")),
         alias |-> UpdatedCell(df[i].alias, Reindexed(other, df[i].tokens, "alias")),
         notes |-> UpdatedCell(df[i].notes, Reindexed(other, df[i].tokens, "notes")),
         score |-> UpdatedCell(df[i].score, Reindexed(other, df[i].tokens, "score"))]]

\* df.NE = np.nan; df.alias = np.nan; df.notes = np.nan
blanked(df) ==
    [i \in DOMAIN df |->
        [tokens |-> df[i].tokens, NE |-> NaN, alias |-> NaN, notes |-> NaN,
         score |-> df[i].score]]

\* the mutant: the unfitted extractor without a table yields an empty table
unfitted_outcome_quiet(filename, init, d) ==
    IF filename.kind # "None" /\ is_file(filename, d)
    THEN Outcome("returned", read_csv(d[filename.path].rows), d)
    ELSE IF init.kind = "None" THEN Outcome("returned", <<>>, d)
    ELSE IF init.kind = "DataFrame" THEN Outcome("TypeError", <<>>, d)
    ELSE IF is_file(init, d) THEN Outcome("returned", read_csv(d[init.path].rows), d)
    ELSE Outcome("returned", <<>>, d)

\* the except NotFittedError branch (lines 367-375); Path(init) of a DataFrame raises
\* TypeError
unfitted_outcome(filename, init, d) ==
    IF filename.kind # "None" /\ is_file(filename, d)
    THEN Outcome("returned", read_csv(d[filename.path].rows), d)
    ELSE IF init.kind = "None" THEN Outcome("NotFittedError", <<>>, d)
    ELSE IF init.kind = "DataFrame" THEN Outcome("TypeError", <<>>, d)
    ELSE IF is_file(init, d) THEN Outcome("returned", read_csv(d[init.path].rows), d)
    ELSE Outcome("NotFittedError", <<>>, d)

\* init as the fitted branch uses it: the existing file of filename when init is None
effective_init(filename, init, d) ==
    IF init.kind = "None" /\ filename.kind # "None" /\ is_file(filename, d)
    THEN filename ELSE init

\* the mutant: the table is written without the final fillna
merged_nofill(df, df_import) == df_update(blanked(df), df_import)

\* lines 395-408 once df_import is there
merged(df, df_import) == fillna(df_update(blanked(df), df_import))

\* to_csv(filename) when filename is given, then return df
saved(filename, df, d) ==
    IF filename.kind = "None" THEN Outcome("returned", df, d)
    ELSE Outcome("returned", df, [d EXCEPT ![filename.path] = File(to_csv(df))])

\* the fitted branch (lines 377-413)
fitted_outcome(t, filename, init, d) ==
    LET df == fresh_df(t)
        ini == effective_init(filename, init, d)
    IN  IF ini.kind = "None" THEN saved(filename, df, d)
        ELSE IF ini.kind = "Path" /\ is_file(ini, d)
             THEN saved(filename, merged(df, read_csv(d[ini.path].rows)), d)
        ELSE IF ini.kind = "DataFrame" THEN saved(filename, merged(df, ini.df), d)
        ELSE Outcome("AttributeError", <<>>, d)

generate_vocabulary_df(t, filename, init, d) ==
    IF t.fitted THEN fitted_outcome(t, filename, init, d)
    ELSE unfitted_outcome(filename, init, d)

-----------------------------------------------------------------------------
(* The vocabulary table: extractor, files, analyst *)

\* no call made yet
NoCall == [op |-> "none"]

Paths == {"vocab1g.csv"}

NoDisk == [p \in Paths |-> NoFile]

\* the feature names a fit can yield, in the vectorizer's (alphabetical) order
FeatCands == << <<"a", "a">>, <<"a", "b">> >>

RECURSIVE SubSeqs(_)
SubSeqs(s) ==
    IF s = <<>> THEN {<<>>}
    ELSE LET rest == SubSeqs(Tail(s))
         IN  rest \cup {<<Head(s)>> \o r : r \in rest}

\* TokenExtractor(): not fitted
NoTex == [fitted |-> FALSE, feats |-> <<>>, tf_tot |-> <<>>, max_features |-> Len(FeatCands)]

\* what the analyst enters for a token: NE, alias, notes
EditCands ==
    { [NE |-> <<"I">>, alias |-> <<"b">>, notes |-> <<"n">>],
      [NE |-> <<"X">>, alias |-> EmptyStr, notes |-> EmptyStr],
      [NE |-> EmptyStr, alias |-> EmptyStr, notes |-> EmptyStr] }

\* a table persisted by an earlier session
OldTable ==
    << [tokens |-> <<"a", "a">>, NE |-> <<"I">>, alias |-> <<"b">>, notes |-> EmptyStr,
        score |-> Frac(1, 1)],
       [tokens |-> <<"b", "b">>, NE |-> EmptyStr, alias |-> EmptyStr, notes |-> EmptyStr,
        score |-> Frac(0, 1)] >>

InitTable ==
    /\ vocab = <<>>
    /\ raw_text = <<>>
    /\ out = NoCall
    /\ tex = NoTex
    /\ disk \in {NoDisk, [NoDisk EXCEPT !["vocab1g.csv"] = File(to_csv(OldTable))]}
    /\ df_mem = <<>>
    /\ call = NoCall
    /\ nsteps = 0

\* TokenExtractor.fit: the vectorizer's features and their summed tf-idf
Fit ==
    /\ nsteps < MaxSteps
    /\ \E feats \in SubSeqs(FeatCands) \ {<<>>} :
          \E tf \in [DOMAIN feats -> 1..MaxTf] :
              tex' = [tex EXCEPT !.fitted = TRUE, !.feats = feats, !.tf_tot = tf]
    /\ nsteps' = nsteps + 1
    /\ UNCHANGED <<matchVars, disk, df_mem, call>>

\* a new session: the extractor is constructed anew, not fitted
NewExtractor ==
    /\ nsteps < MaxSteps
    /\ tex.fitted
    /\ tex' = NoTex
    /\ nsteps' = nsteps + 1
    /\ UNCHANGED <<matchVars, disk, df_mem, call>>

\* openDataframe(path).fillna("").set_index("tokens")
OpenDataframe ==
    /\ nsteps < MaxSteps
    /\ \E p \in Paths :
          /\ disk[p].exists
          /\ df_mem' = fillna(read_csv(disk[p].rows))
    /\ nsteps' = nsteps + 1
    /\ UNCHANGED <<matchVars, tex, disk, call>>

\* the analyst sets NE, alias and notes of one row
AnalystEdit ==
    /\ nsteps < MaxSteps
    /\ \E i \in DOMAIN df_mem : \E c \in EditCands :
          df_mem' = [df_mem EXCEPT ![i].NE = c.NE, ![i].alias = c.alias, ![i].notes = c.notes]
    /\ nsteps' = nsteps + 1
    /\ UNCHANGED <<matchVars, tex, disk, call>>

FilenameArgs == {NoneArg} \cup {PathArg(p) : p \in Paths} \cup {StrArg(p) : p \in Paths}

InitArgs == FilenameArgs \cup (IF df_mem = <<>> THEN {} ELSE {FrameArg(df_mem)})

\* generate_vocabulary_df(tex, filename, init)
Generate ==
    /\ nsteps < MaxSteps
    /\ \E filename \in FilenameArgs : \E init \in InitArgs :
          LET o == generate_vocabulary_df(tex, filename, init, disk)
          IN  /\ call' = [op |-> "generate_vocabulary_df", tex |-> tex, filename |-> filename,
                          init |-> init, disk |-> disk, status |-> o.status, df |-> o.df]
              /\ disk' = o.disk
              /\ df_mem' = IF o.status = "returned" THEN o.df ELSE df_mem
    /\ nsteps' = nsteps + 1
    /\ UNCHANGED <<matchVars, tex>>

NextTable == Fit \/ NewExtractor \/ OpenDataframe \/ AnalystEdit \/ Generate

SpecTable == InitTable /\ [][NextTable]_vars

-----------------------------------------------------------------------------
(* The inputs of the matching functions *)

w_the == <<"t", "h", "e">>

w_quick == <<"q", "u", "i", "c", "k">>

w_brown == <<"b", "r", "o", "w", "n">>

w_fox == <<"f", "o", "x">>

w_jumped == <<"j", "u", "m", "p", "e", "d">>

w_over == <<"o", "v", "e", "r">>

w_lazy == <<"l", "a", "z", "y">>

w_dog == <<"d", "o", "g">>

w_jump == <<"j", "u", "m", "p">>

w_these == <<"t", "h", "e", "s", "e">>

w_there == <<"t", "h", "e", "r", "e">>

w_brown_animal == <<"b", "r", "o", "w", "n", "_", "a", "n", "i", "m", "a", "l">>

w_fast_animal == <<"f", "a", "s", "t", "_", "a", "n", "i", "m", "a", "l">>

w_slow_animal == <<"s", "l", "o", "w", "_", "a", "n", "i", "m", "a", "l">>

Sp == <<" ">>

\* the vocabulary of the tests (src/tests/test_keyword.py, fixture vocab)
FoxVocab ==
    << Row(w_fox, <<"I">>, w_fox),
       Row(Join(<<w_brown, w_fox>>, Sp), <<"I">>, w_brown_animal),
       Row(Join(<<w_quick, w_brown, w_fox>>, Sp), <<"I">>, w_fast_animal),
       Row(w_jumped, <<"V">>, w_jump),
       Row(w_dog, <<"I">>, w_dog),
       Row(Join(<<w_lazy, w_dog>>, Sp), <<"I">>, w_slow_animal),
       Row(w_the, <<"X">>, EmptyStr),
       Row(w_over, <<"U">>, EmptyStr) >>

\* the documents of the tests (fixture raw_text)
FoxText ==
    << Join(<<w_the, w_quick, w_brown, w_fox, w_jumped, w_over, w_the, w_lazy, w_dog>>, Sp),
       Join(<<w_the, w_fox, w_jumped, w_over, w_the, w_dog>>, Sp) >>

\* the example of regex_match_vocab's docstring: the shortest entry listed first
TheVocab ==
    << Row(w_the, <<"X">>, <<"1">>),
       Row(w_these, <<"X">>, <<"2">>),
       Row(w_there, <<"X">>, <<"3">>) >>

TheText == << w_there \o <<"-", "i", "n">> >>

Alphabet == {"a", "b", " "}

Docs == UNION {[1..n -> Alphabet] : n \in 0..MaxTextLen}

\* documents with an upper-case letter, an underscore, a hyphen, two underscores
ExtraDocs == { <<"A", " ", "b">>, <<"A", "B">>, <<"a", "_", "b">>, <<"a", "-", "b">>, <<"a", "b", "-", "a">>,
               <<"a", "_", "_", "b">> }

ShortDocs == { <<>>, <<"a">>, <<"a", "b">> }

TextInputs ==
    {<<d>> : d \in Docs \cup ExtraDocs} \cup {<<d1, d2>> : d1 \in ShortDocs, d2 \in ShortDocs}

TokenCands == { <<"a">>, <<"a", " ", "b">>, <<"a", "b">> }

\* what an analyst has entered for a token: classified with an alias, a stopword, nothing yet
ClassCands ==
    { [NE |-> <<"I">>, alias |-> <<"b">>],
      [NE |-> <<"X">>, alias |-> EmptyStr],
      [NE |-> EmptyStr, alias |-> EmptyStr] }

RowCands == {Row(t, c.NE, c.alias) : t \in TokenCands, c \in ClassCands}

UniqueTokens(df) == \A i, j \in DOMAIN df : df[i].tokens = df[j].tokens => i = j

VocabInputs ==
    {v \in UNION {[1..n -> RowCands] : n \in 0..MaxVocab} : UniqueTokens(v)}


InitMatch ==
    /\ \/ /\ vocab \in VocabInputs
          /\ raw_text \in TextInputs
       \/ /\ vocab = FoxVocab
          /\ raw_text = FoxText
       \/ /\ vocab = TheVocab
          /\ raw_text = TheText
    /\ out = NoCall
    /\ tex = NoTex
    /\ disk = NoDisk
    /\ df_mem = <<>>
    /\ call = NoCall
    /\ nsteps = 0

\* kex.token_to_alias(raw_text, vocab)
TokenToAlias ==
    /\ out' = [op |-> "token_to_alias",
               val |-> token_to_alias(raw_text, vocab),
               matches |-> token_to_alias_matches(raw_text, vocab)]
    /\ UNCHANGED <<vocab, raw_text, tableVars>>

\* kex.iob_extractor(raw_text, vocab)
IobExtractor ==
    /\ out' = [op |-> "iob_extractor",
               val |-> iob_extractor(raw_text, vocab),
               tidy |-> tidy_tokens(raw_text, vocab),
               columns |-> iob_columns]
    /\ UNCHANGED <<vocab, raw_text, tableVars>>

NextMatch == TokenToAlias \/ IobExtractor

SpecMatch == InitMatch /\ [][NextMatch]_vars

-----------------------------------------------------------------------------
(* Claims about the matching functions, checked under SpecMatch *)

\* entry e matches as a whole word at position p of text
WholeWordAt(text, p, e) ==
    /\ Boundary(text, p)
    /\ LiteralAt(text, p, e)
    /\ Boundary(text, p + Len(e))

AliasedTokens(vocab_df) == {vocab_df[i].tokens : i \in {j \in DOMAIN vocab_df : HasAlias(vocab_df[j])}}

\* C1: at every position where the pattern of regex_match_vocab matches, the match is a
\* vocabulary entry that matches there as a whole word and no vocabulary entry that
\* matches there as a whole word is longer; with the vocabulary the, these, there the
\* only match in "there-in" is "there".
C1_LongestMatch ==
    out.op = "token_to_alias" =>
        /\ \A d \in DOMAIN raw_text : \A k \in DOMAIN out.matches[d] :
              LET m == out.matches[d][k]
              IN  /\ m.text \in AliasedTokens(vocab)
                  /\ WholeWordAt(raw_text[d], m.start, m.text)
                  /\ \A e \in AliasedTokens(vocab) :
                        WholeWordAt(raw_text[d], m.start, e) => Len(e) <= Len(m.text)
        /\ (vocab = TheVocab /\ raw_text = TheText) =>
              out.matches[1] = <<[start |-> 1, text |-> w_there]>>

\* a match was made where a second, shorter vocabulary entry matches as a whole word too
C1_Witness ==
    /\ out.op = "token_to_alias"
    /\ \E d \in DOMAIN raw_text : \E k \in DOMAIN out.matches[d] :
          \E e \in AliasedTokens(vocab) :
              /\ e # out.matches[d][k].text
              /\ WholeWordAt(raw_text[d], out.matches[d][k].start, e)

\* the alias of the one row of token t
AliasOf(vocab_df, t) == vocab_df[CHOOSE i \in DOMAIN vocab_df : vocab_df[i].tokens = t].alias

\* the aliased tokens that match as whole words at p
CandidatesAt(vocab_df, text, p) == {t \in AliasedTokens(vocab_df) : WholeWordAt(text, p, t)}

Longest(ts) == CHOOSE t \in ts : \A u \in ts : Len(u) <= Len(t)

\* the substitution as the claim states it: left to right, at each position the longest
\* aliased token that matches as a whole word is replaced by its alias, anything else is kept
RECURSIVE ClaimedSubst(_, _, _)
ClaimedSubst(vocab_df, text, p) ==
    IF p > Len(text) THEN <<>>
    ELSE IF CandidatesAt(vocab_df, text, p) # {}
         THEN LET t == Longest(CandidatesAt(vocab_df, text, p))
              IN  AliasOf(vocab_df, t) \o ClaimedSubst(vocab_df, text, p + Len(t))
         ELSE <<text[p]>> \o ClaimedSubst(vocab_df, text, p + 1)

FoxAliased ==
    << Join(<<w_the, w_fast_animal, w_jump, w_over, w_the, w_slow_animal>>, Sp),
       Join(<<w_the, w_fox, w_jump, w_over, w_the, w_dog>>, Sp) >>

\* C2: token_to_alias replaces every whole-word occurrence of a token with a non-empty
\* alias by the alias, longest token first, left to right, and keeps everything else
\* (tokens with an empty alias included); on the fox/dog scenario it returns the two
\* expected documents.
C2_TokenToAlias ==
    out.op = "token_to_alias" =>
        /\ DOMAIN out.val = DOMAIN raw_text
        /\ \A d \in DOMAIN raw_text : out.val[d] = ClaimedSubst(vocab, raw_text[d], 1)
        /\ (vocab = FoxVocab /\ raw_text = FoxText) => out.val = FoxAliased

\* the scenario has run: aliased tokens replaced, "the" and "over" (empty alias) kept
C2_Witness ==
    /\ out.op = "token_to_alias"
    /\ vocab = FoxVocab
    /\ raw_text = FoxText
    /\ out.val # raw_text

IobRow(t, label) == [token |-> t, NE |-> label, doc_id |-> 0]

RowsOfDoc(rows, id) == LET idx == {i \in DOMAIN rows : rows[i].doc_id = id}
                       IN  [k \in 1..Cardinality(idx) |->
                               rows[CHOOSE i \in idx : Cardinality({j \in idx : j < i}) = k - 1]]

C4_IOBEncoding ==
    out.op = "iob_extractor" =>
        \A i \in DOMAIN out.tidy :
            LET r == out.tidy[i]
                first == i = 1 \/ out.tidy[i - 1].token_id # r.token_id
            IN  r.text # NaN =>
                    out.val[i].NE = IF r.NE \in holes THEN <<"O">>
                                    ELSE IF first THEN <<"B", "-">> \o r.NE
                                    ELSE <<"I", "-">> \o r.NE

-----------------------------------------------------------------------------
(* Claims about generate_vocabulary_df, checked under SpecTable *)

Generated == call.op = "generate_vocabulary_df"

\* a call with a fitted extractor that returned a table
FittedReturn == Generated /\ call.tex.fitted /\ call.status = "returned"

\* the table the call merged in (df_import), <<>> when it merged none
ImportOf(c) ==
    LET ini == effective_init(c.filename, c.init, c.disk)
    IN  IF ini.kind = "DataFrame" THEN ini.df
        ELSE IF ini.kind = "None" THEN <<>>
        ELSE read_csv(c.disk[ini.path].rows)

Merged == FittedReturn /\ effective_init(call.filename, call.init, call.disk).kind # "None"

RowOf(df, t) == df[CHOOSE i \in DOMAIN df : df[i].tokens = t]

IsSet(v) == v # EmptyStr /\ v # NaN

\* C5: when a table is given as init to a fitted extractor, every row of it whose token
\* the extractor ranks (every row, when the table was built from that extractor) is in
\* the result with the NE, alias and notes the analyst set, and with empty NE, alias and
\* notes where the analyst set none.
C5_MergeRoundTrip ==
    (FittedReturn /\ call.init.kind = "DataFrame") =>
        \A i \in DOMAIN call.init.df :
            LET r == call.init.df[i]
            IN  r.tokens \in Range(vocab_(call.tex)) =>
                    /\ Cardinality({j \in DOMAIN call.df : call.df[j].tokens = r.tokens}) = 1
                    /\ \A col \in {"NE", "alias", "notes"} :
                          RowOf(call.df, r.tokens)[col] = FillCell(r[col])

\* the round trip: a table of exactly the extractor's tokens, one row classified by the
\* analyst and one left unclassified, was merged
C5_Witness ==
    /\ FittedReturn
    /\ call.init.kind = "DataFrame"
    /\ Range(Tokens(call.init.df)) = Range(vocab_(call.tex))
    /\ \E i, j \in DOMAIN call.init.df :
          /\ IsSet(call.init.df[i].NE) /\ IsSet(call.init.df[i].alias)
          /\ IsSet(call.init.df[i].notes)
          /\ ~IsSet(call.init.df[j].NE) /\ ~IsSet(call.init.df[j].alias)

\* C6: after a merge the score of every row is the normalized score of the current fit
\* (a score that is NaN counting as the blank the final fillna writes).
C6_ScoresRecomputed ==
    Merged =>
        \A i \in DOMAIN call.df :
            call.df[i].score = FillCell(RowOf(fresh_df(call.tex), call.df[i].tokens).score)

\* C7: the rows of the returned table are the extractor's ranked tokens, each once;
\* a token the merged table does not have has empty NE, alias and notes.
C7_RowsAreRankedTokens ==
    FittedReturn =>
        /\ Range(Tokens(call.df)) = Range(vocab_(call.tex))
        /\ UniqueTokens(call.df)
        /\ Len(call.df) = Len(vocab_(call.tex))
        /\ \A i \in DOMAIN call.df :
              ~HasLabel(ImportOf(call), call.df[i].tokens) =>
                  /\ call.df[i].NE = EmptyStr
                  /\ call.df[i].alias = EmptyStr
                  /\ call.df[i].notes = EmptyStr

\* a merge with a table that has a token the extractor does not rank and lacks one it ranks
C7_Witness ==
    /\ Merged
    /\ \E i \in DOMAIN ImportOf(call) : ImportOf(call)[i].tokens \notin Range(vocab_(call.tex))
    /\ \E t \in Range(vocab_(call.tex)) : ~HasLabel(ImportOf(call), t)

\* C8: no NE, alias or notes of a returned table is NaN.
C8_NoNaN ==
    FittedReturn =>
        \A i \in DOMAIN call.df :
            call.df[i].NE # NaN /\ call.df[i].alias # NaN /\ call.df[i].notes # NaN

\* a merge in which a ranked token is missing from the merged table, or has a NaN there
C8_Witness ==
    /\ Merged
    /\ \E t \in Range(vocab_(call.tex)) :
          \/ ~HasLabel(ImportOf(call), t)
          \/ RowOf(ImportOf(call), t).NE = NaN

\* a call with an extractor that is not fitted
UnfittedCall == Generated /\ ~call.tex.fitted

NamesFile(a, d) == IsPathLike(a) /\ is_file(a, d)

\* neither filename nor init designates an existing table
NoTableGiven ==
    /\ ~NamesFile(call.filename, call.disk)
    /\ call.init.kind # "DataFrame"
    /\ ~NamesFile(call.init, call.disk)

\* C9: an unfitted extractor with no existing table fails with NotFittedError; no table
\* is returned and no file is written.
C9_NotFitted ==
    (UnfittedCall /\ NoTableGiven) =>
        /\ call.status = "NotFittedError"
        /\ call.df = <<>>
        /\ disk = call.disk

\* the failure happened, with a filename that names no file
C9_Witness ==
    /\ UnfittedCall
    /\ NoTableGiven
    /\ call.filename.kind # "None"
    /\ call.status = "NotFittedError"

\* C10: an unfitted extractor with an existing table, given as filename or as init,
\* returns that table unchanged.
C10_FallbackTable ==
    (UnfittedCall /\ ~NoTableGiven) =>
        /\ call.status = "returned"
        /\ IF NamesFile(call.filename, call.disk)
           THEN to_csv(call.df) = call.disk[call.filename.path].rows
           ELSE IF call.init.kind = "DataFrame" THEN call.df = call.init.df
           ELSE to_csv(call.df) = call.disk[call.init.path].rows

-----------------------------------------------------------------------------
(* The vectorizer of TokenExtractor: analyzer, fit, transform *)

\* the characters of the model, in code-point order
CharOrder == <<" ", "-", "A", "I", "N", "P", "S", "U", "X", "_", "a", "b", "d", "e", "g",
               "n", "t", "u", "x", "y">>

CharRank(c) == CHOOSE i \in DOMAIN CharOrder : CharOrder[i] = c

\* a < b for two str
RECURSIVE StrLess(_, _)
StrLess(a, b) ==
    IF b = <<>> THEN FALSE
    ELSE IF a = <<>> THEN TRUE
    ELSE IF Head(a) = Head(b) THEN StrLess(Tail(a), Tail(b))
    ELSE CharRank(Head(a)) < CharRank(Head(b))

\* sorted(set of str)
RECURSIVE SortedStrs(_)
SortedStrs(S) ==
    IF S = {} THEN <<>>
    ELSE LET m == CHOOSE x \in S : \A y \in S \ {x} : StrLess(x, y)
         IN  <<m>> \o SortedStrs(S \ {m})

\* stop_words="english", among the words of the model
stop_words == {w_the, w_over}

RECURSIVE WithoutStopWords(_)
WithoutStopWords(toks) ==
    IF toks = <<>> THEN <<>>
    ELSE (IF Head(toks) \in stop_words THEN <<>> ELSE <<Head(toks)>>)
             \o WithoutStopWords(Tail(toks))

\* the vectorizer's analyzer: lowercase, token_pattern, stop words removed
analyzer(doc) == WithoutStopWords(findall(regex_match_vocab(<<>>, TRUE), Lower(doc)))

\* the tf-idf entry of document doc and feature f is positive exactly when f occurs in doc
Occurs(doc, f) == f \in Range(analyzer(doc))

\* the vocabulary a fit on documents X learns: its distinct tokens, sorted
fit_vocabulary(X) == SortedStrs(UNION {Range(analyzer(X[d])) : d \in DOMAIN X})

\* the vectors X_tf.sum(axis=0) can be for the features feats over documents X: the sum
\* is positive for a feature some document has, 0 for the others
TfTotals(feats, X) ==
    LET present == {i \in DOMAIN feats : \E d \in DOMAIN X : Occurs(X[d], feats[i])}
    IN  {tf \in [DOMAIN feats -> 0..MaxTf] : \A i \in DOMAIN feats : (tf[i] > 0) <=> (i \in present)}

RECURSIVE SumSeq(_)
SumSeq(xs) == IF xs = <<>> THEN 0 ELSE Head(xs) + SumSeq(Tail(xs))

\* the number of occurrences of feature f in the documents X
term_count(X, f) ==
    SumSeq([d \in DOMAIN X |->
               Cardinality({i \in DOMAIN analyzer(X[d]) : analyzer(X[d])[i] = f})])

\* the vectorizer's max_features: of more than m features the m with the highest term
\* count are kept ((-tfs).argsort()[:m]), in their sorted order
limit_features(feats, X, m) ==
    IF Len(feats) <= m THEN feats
    ELSE LET kept == Range(SubSeq(argsort([i \in DOMAIN feats |-> 0 - term_count(X, feats[i])]), 1, m))
         IN  SortedStrs({feats[i] : i \in kept})

\* the features a fit of extractor t on documents X learns
fit_features(t, X) == limit_features(fit_vocabulary(X), X, t.max_features)

\* TokenExtractor.fit_transform: fits the vectorizer on X; tf is the summed tf-idf
fit_transform(t, X, tf) ==
    IF fit_vocabulary(X) = <<>> THEN [status |-> "ValueError", tex |-> t]
    ELSE [status |-> "ok",
          tex |-> [t EXCEPT !.fitted = TRUE, !.feats = fit_features(t, X), !.tf_tot = tf]]

\* TokenExtractor.transform: the fitted features over X; _tf_tot is overwritten.  The
\* check of line 289 passes (_model is always there); the vectorizer's transform raises
\* NotFittedError when it has no vocabulary
transform(t, X, tf) ==
    IF ~t.fitted THEN [status |-> "NotFittedError", tex |-> t]
    ELSE [status |-> "ok", tex |-> [t EXCEPT !.tf_tot = tf]]

\* toks[d, i] > 0: the entry of document X[d] and feature i is positive
toks_positive(t, X, d, i) == Occurs(X[d], t.feats[i])

-----------------------------------------------------------------------------
(* tag_extractor *)

\* the mutant: no fit of its own, an unfitted extractor fails as transform does
tag_tokens_nofit(t, X, tf) ==
    IF t.fitted THEN transform(t, X, tf) ELSE [status |-> "NotFittedError", tex |-> t]

\* the try / except of tag_extractor: transform when fitted, fit_transform when not
tag_tokens(t, X, tf) ==
    IF t.fitted THEN transform(t, X, tf) ELSE fit_transform(t, X, tf)

\* the features toks is over
tag_feats(t, X) == IF t.fitted THEN t.feats ELSE fit_features(t, X)

\* the mutant: an empty NE is left empty
v_filled_keep_NE(vocab_rows, group_untagged) ==
    [k \in DOMAIN vocab_rows |->
        [tokens |-> vocab_rows[k].tokens,
         NE |-> vocab_rows[k].NE,
         alias |-> IF vocab_rows[k].alias \in {EmptyStr, NaN}
                   THEN (IF group_untagged THEN <<"_", "u", "n", "t", "a", "g", "g", "e", "d">>
                         ELSE vocab_rows[k].tokens)
                   ELSE vocab_rows[k].alias]]

\* vocab.replace({"NE": {"": nan}, "alias": {"": nan}}).fillna({"NE": "NA", "alias": untagged_alias})
v_filled(vocab_rows, group_untagged) ==
    [k \in DOMAIN vocab_rows |->
        [tokens |-> vocab_rows[k].tokens,
         NE |-> IF vocab_rows[k].NE \in {EmptyStr, NaN} THEN <<"N", "A">> ELSE vocab_rows[k].NE,
         alias |-> IF vocab_rows[k].alias \in {EmptyStr, NaN}
                   THEN (IF group_untagged THEN <<"_", "u", "n", "t", "a", "g", "g", "e", "d">>
                         ELSE vocab_rows[k].tokens)
                   ELSE vocab_rows[k].alias]]

\* (NE, alias) < (NE, alias), as groupby sorts its keys
PairLess(a, b) == StrLess(a[1], b[1]) \/ (a[1] = b[1] /\ StrLess(a[2], b[2]))

RECURSIVE SortedPairs(_)
SortedPairs(S) ==
    IF S = {} THEN <<>>
    ELSE LET m == CHOOSE x \in S : \A y \in S \ {x} : PairLess(x, y)
         IN  <<m>> \o SortedPairs(S \ {m})

\* the columns of table: the (NE, alias) groups of v_filled, sorted
table_columns(v) == SortedPairs({<<v[k].NE, v[k].alias>> : k \in DOMAIN v})

\* table: 1 where the token of row k is in the group col, else 0
table(v, k, col) == IF <<v[k].NE, v[k].alias>> = col THEN 1 ELSE 0

\* the mutant: the tf-idf entry is kept as a count of occurrences, not cut to 1
count_docterm(t, X, d, k) ==
    Cardinality({i \in DOMAIN analyzer(X[d]) : analyzer(X[d])[i] = t.feats[ranks_(t)[k]]})

\* A = toks[:, ranks_]; A[A > 0] = 1, for document d and rank k
binary_docterm(t, X, d, k) == IF toks_positive(t, X, d, ranks_(t)[k]) THEN 1 ELSE 0

\* docterm.dot(table): columns (NE, alias), one row of counts per document
tag_df_of(t, X, v) ==
    LET cols == table_columns(v)
    IN  [columns |-> cols,
         rows |-> [d \in DOMAIN X |->
                     [c \in DOMAIN cols |->
                         SumSeq([k \in DOMAIN v |-> binary_docterm(t, X, d, k) * table(v, k, cols[c])])]]]

\* the top-level classes of a tag matrix, sorted
classes(tag_df) == SortedStrs({tag_df.columns[c][1] : c \in DOMAIN tag_df.columns})

RECURSIVE NonEmpty(_)
NonEmpty(strings) ==
    IF strings = <<>> THEN <<>>
    ELSE (IF Head(strings) # EmptyStr THEN <<Head(strings)>> ELSE <<>>) \o NonEmpty(Tail(strings))

\* join_em: ", ".join([x for x in strings if x != ""])
join_em(strings) == Join(NonEmpty(strings), <<",", " ">>)

\* np.where(clf_df.T == 1, aliases, ""), joined: the string of document d and class clf
readable_cell(tag_df, d, clf) ==
    join_em([c \in DOMAIN tag_df.columns |->
                IF tag_df.columns[c][1] = clf /\ tag_df.rows[d][c] = 1
                THEN tag_df.columns[c][2] ELSE EmptyStr])

\* _get_readable_tag_df: one column per class, comma-separated aliases per document
get_readable_tag_df(tag_df) ==
    LET clfs == classes(tag_df)
    IN  [columns |-> clfs,
         rows |-> [d \in DOMAIN tag_df.rows |->
                     [j \in DOMAIN clfs |-> readable_cell(tag_df, d, clfs[j])]]]

get_multilabel_representation(tag_df) == get_readable_tag_df(tag_df)

NoFrame == [columns |-> <<>>, rows |-> <<>>]

\* tag_extractor(transformer, raw_text, vocab_df, readable, group_untagged); vocab_df is
\* given as the init argument of generate_vocabulary_df, tf as the summed tf-idf of toks
tag_extractor(t, X, vocab_df, readable, group_untagged, tf) ==
    LET r == tag_tokens(t, X, tf)
    IN  IF r.status # "ok"
        THEN [status |-> r.status, tex |-> r.tex, tag_df |-> NoFrame, val |-> NoFrame]
        ELSE LET g == generate_vocabulary_df(r.tex, NoneArg, vocab_df, NoDisk)
             IN  IF g.status # "returned"
                 THEN [status |-> g.status, tex |-> r.tex, tag_df |-> NoFrame, val |-> NoFrame]
                 ELSE LET m == tag_df_of(r.tex, X, v_filled(g.df, group_untagged))
                      IN  [status |-> "returned", tex |-> r.tex, tag_df |-> m,
                           val |-> IF readable THEN get_readable_tag_df(m) ELSE m]

-----------------------------------------------------------------------------
(* get_tag_completeness *)

w_NA == <<"N", "A">>

w_U == <<"U">>

\* tag_df[keys].sum(axis=1) for document d: the hits in the columns of the classes keys
class_sum(tag_df, keys, d) ==
    SumSeq([c \in DOMAIN tag_df.columns |->
               IF tag_df.columns[c][1] \in keys THEN tag_df.rows[d][c] ELSE 0])

\* tag_df.get(keys, all_empt).sum(axis=1) for document d: a key that is no class of the
\* columns is a KeyError, and get then gives the default, all zeros
get_sum(tag_df, keys, d) ==
    IF keys \subseteq Range(classes(tag_df)) THEN class_sum(tag_df, keys, d) ELSE 0

\* tag_df.sum(axis=1) for document d
total_sum(tag_df, d) == SumSeq(tag_df.rows[d])

\* a float: the fraction num / den, or NaN
Ratio(num, den) ==
    IF den = 0 THEN [nan |-> TRUE, num |-> 0, den |-> 0]
    ELSE [nan |-> FALSE, num |-> num \div GCD(num, den), den |-> den \div GCD(num, den)]

\* the mutant: a document without hits gets precision 0
tag_pct_zero(tag_df, d) ==
    IF total_sum(tag_df, d) = 0 THEN [nan |-> FALSE, num |-> 0, den |-> 1]
    ELSE Ratio(total_sum(tag_df, d) - get_sum(tag_df, {w_NA, w_U}, d), total_sum(tag_df, d))

\* tag_pct = 1 - tag_df.get(["NA", "U"], all_empt).sum(axis=1) / tag_df.sum(axis=1)
tag_pct(tag_df, d) ==
    Ratio(total_sum(tag_df, d) - get_sum(tag_df, {w_NA, w_U}, d), total_sum(tag_df, d))

\* the mutant: complete means no hit in NA and U together
tag_comp_nau(tag_df) ==
    Cardinality({d \in DOMAIN tag_df.rows : get_sum(tag_df, {w_NA, w_U}, d) = 0})

\* tag_comp = (tag_df.get("NA", all_empt).sum(axis=1) == 0).sum()
tag_comp(tag_df) ==
    Cardinality({d \in DOMAIN tag_df.rows : get_sum(tag_df, {w_NA}, d) = 0})

\* tag_empt: the documents without a hit in I, in P and in S
tag_empt(tag_df) ==
    Cardinality({d \in DOMAIN tag_df.rows :
                    /\ get_sum(tag_df, {<<"I">>}, d) = 0
                    /\ get_sum(tag_df, {<<"P">>}, d) = 0
                    /\ get_sum(tag_df, {<<"S">>}, d) = 0})

get_tag_completeness(tag_df) ==
    [status |-> "returned",
     tag_pct |-> [d \in DOMAIN tag_df.rows |-> tag_pct(tag_df, d)],
     tag_comp |-> tag_comp(tag_df),
     tag_empt |-> tag_empt(tag_df)]

-----------------------------------------------------------------------------
(* Tagging: an extractor, documents, a vocabulary table *)

MaxDocs == 2

\* TokenExtractor.__init__: max_features=5000
max_features == 5000

\* TokenExtractor() with its defaults: not fitted
TagTex == [NoTex EXCEPT !.max_features = max_features]

\* documents: one without a token, one with a token twice, one with two tokens
TagDocs == { <<"a">>,
             <<"a", "a", " ", "a", "a">>,
             <<"a", "a", " ", "a", "b">> }

RECURSIVE SeqsUpTo(_, _)
SeqsUpTo(S, n) ==
    IF n = 0 THEN {<<>>}
    ELSE LET shorter == SeqsUpTo(S, n - 1)
         IN  shorter \cup {Append(q, x) : q \in {r \in shorter : Len(r) = n - 1}, x \in S}

TagCorpora == SeqsUpTo(TagDocs, MaxDocs) \ {<<>>}

\* the corpora an extractor was fitted on before the call
FitCorpora == { << <<"a", "b">> >>, << <<"a", "a", " ", "a", "b">> >> }

\* the tokens of the vocabulary tables
TagTokens == << <<"a", "a">>, <<"a", "b">> >>

\* NE and alias of a row: unclassified, an item with and without alias, unknown, a problem
TagClassCands ==
    { <<EmptyStr, EmptyStr>>, <<<<"I">>, <<"x">>>>, <<<<"I">>, EmptyStr>>,
      <<<<"U">>, <<"u">>>>, <<<<"P">>, <<"x">>>> }

\* the vocabulary tables: at most MaxVocab rows, tokens unique
TagVocabs ==
    {[i \in DOMAIN ts |-> Row(ts[i], cl[i][1], cl[i][2])] :
        <<ts, cl>> \in UNION {{ts0} \X [DOMAIN ts0 -> TagClassCands] :
                                 ts0 \in {q \in SubSeqs(TagTokens) : Len(q) <= MaxVocab}}}

InitTag ==
    /\ vocab \in TagVocabs
    /\ raw_text \in TagCorpora
    /\ out = NoCall
    /\ tex = TagTex
    /\ disk = NoDisk
    /\ df_mem = <<>>
    /\ call = NoCall
    /\ nsteps = 0

\* the extractor is fitted on an earlier corpus
FitTag ==
    /\ ~tex.fitted
    /\ \E X \in FitCorpora : \E tf \in TfTotals(fit_vocabulary(X), X) :
          tex' = fit_transform(tex, X, tf).tex
    /\ UNCHANGED <<vocab, raw_text, out, disk, df_mem, call, nsteps>>

\* vocab_df: None for the empty table
VocabArg == IF vocab = <<>> THEN NoneArg ELSE FrameArg(vocab)

\* tag_extractor(tex, raw_text, vocab, readable, group_untagged)
TagExtractor ==
    /\ \E tf \in TfTotals(tag_feats(tex, raw_text), raw_text) :
       \E readable \in BOOLEAN : \E group_untagged \in BOOLEAN :
          \E o \in {tag_extractor(tex, raw_text, VocabArg, readable, group_untagged, tf)} :
              /\ out' = [op |-> "tag_extractor", fitted |-> tex.fitted, feats |-> tex.feats,
                         readable |-> readable, group_untagged |-> group_untagged,
                         status |-> o.status, fitted_after |-> o.tex.fitted,
                         feats_after |-> o.tex.feats, tag_df |-> o.tag_df, val |-> o.val]
              /\ tex' = o.tex
    /\ UNCHANGED <<vocab, raw_text, disk, df_mem, call, nsteps>>

\* a tag matrix was returned by the last call
HasTagMatrix == out.op = "tag_extractor" /\ out.status = "returned" /\ ~out.readable

\* get_tag_completeness(tag_df) on the matrix tag_extractor returned
GetTagCompleteness ==
    /\ HasTagMatrix
    /\ LET o == get_tag_completeness(out.val)
       IN  out' = [op |-> "get_tag_completeness", tag_df |-> out.val, status |-> o.status,
                   tag_pct |-> o.tag_pct, tag_comp |-> o.tag_comp, tag_empt |-> o.tag_empt]
    /\ UNCHANGED <<vocab, raw_text, tex, disk, df_mem, call, nsteps>>

\* get_multilabel_representation(tag_df) on the matrix tag_extractor returned
GetMultilabelRepresentation ==
    /\ HasTagMatrix
    /\ out' = [op |-> "get_multilabel_representation", tag_df |-> out.val,
               val |-> get_multilabel_representation(out.val)]
    /\ UNCHANGED <<vocab, raw_text, tex, disk, df_mem, call, nsteps>>

NextTag == FitTag \/ TagExtractor \/ GetTagCompleteness \/ GetMultilabelRepresentation

SpecTag == InitTag /\ [][NextTag]_vars

-----------------------------------------------------------------------------
(* Claims about tag_extractor and get_tag_completeness, checked under SpecTag *)

Tagged == out.op = "tag_extractor"

TagReturned == Tagged /\ out.status = "returned"

VocabCell(t, col) == IF HasLabel(vocab, t) THEN RowOf(vocab, t)[col] ELSE EmptyStr

w_untagged == <<"_", "u", "n", "t", "a", "g", "g", "e", "d">>

\* the column a ranked token counts in
ColumnOf(t, group_untagged) ==
    << IF VocabCell(t, "NE") = EmptyStr THEN w_NA ELSE VocabCell(t, "NE"),
       IF VocabCell(t, "alias") # EmptyStr THEN VocabCell(t, "alias")
       ELSE IF group_untagged THEN w_untagged ELSE t >>

CountsIn(t, col) ==
    \E c \in DOMAIN out.tag_df.columns :
        /\ out.tag_df.columns[c] = col
        /\ \A d \in DOMAIN raw_text : Occurs(raw_text[d], t) => out.tag_df.rows[d][c] >= 1

\* C13: a token with empty NE counts in a column of class "NA"; with group_untagged
\* false a token with empty alias counts in a column whose alias is the token itself.
C13_EmptyDefaults ==
    TagReturned =>
        \A t \in Range(out.feats_after) :
            /\ VocabCell(t, "NE") = EmptyStr =>
                   \E al \in {VocabCell(t, "alias"), w_untagged, t} : CountsIn(t, <<w_NA, al>>)
            /\ (~out.group_untagged /\ VocabCell(t, "alias") = EmptyStr) =>
                   \E ne \in {VocabCell(t, "NE"), w_NA} : CountsIn(t, <<ne, t>>)

\* group_untagged is false and a token without NE and alias occurs in a document
C13_Witness ==
    /\ TagReturned
    /\ ~out.group_untagged
    /\ \E t \in Range(out.feats_after) :
          /\ VocabCell(t, "NE") = EmptyStr
          /\ VocabCell(t, "alias") = EmptyStr
          /\ HasLabel(vocab, t)
          /\ \E d \in DOMAIN raw_text : Occurs(raw_text[d], t)
          /\ CountsIn(t, <<w_NA, t>>)

\* C14: with group_untagged true the tag matrix has at most one column whose alias is
\* "_untagged".
C14_SingleUntagged ==
    (TagReturned /\ out.group_untagged) =>
        Cardinality({c \in DOMAIN out.tag_df.columns : out.tag_df.columns[c][2] = w_untagged}) <= 1

\* the aliases of class clf with a non-zero entry for document d, in column order
RECURSIVE PresentAliases(_, _, _, _)
PresentAliases(tag_df, d, clf, c) ==
    IF c > Len(tag_df.columns) THEN <<>>
    ELSE (IF tag_df.columns[c][1] = clf /\ tag_df.rows[d][c] > 0
          THEN <<tag_df.columns[c][2]>> ELSE <<>>)
             \o PresentAliases(tag_df, d, clf, c + 1)

\* C15: the readable form has, per document and class, the comma-separated aliases of
\* exactly the columns of that class with a non-zero entry.
C15_ReadablePresent ==
    ((TagReturned /\ out.readable) \/ out.op = "get_multilabel_representation") =>
        /\ Range(out.val.columns) = {out.tag_df.columns[c][1] : c \in DOMAIN out.tag_df.columns}
        /\ \A d \in DOMAIN out.val.rows : \A j \in DOMAIN out.val.columns :
              out.val.rows[d][j] =
                  Join(PresentAliases(out.tag_df, d, out.val.columns[j], 1), <<",", " ">>)

\* the hits of document d in the columns of class clf, 0 when there is no such column
ClassHits(tag_df, d, clf) ==
    SumSeq([c \in DOMAIN tag_df.columns |->
               IF tag_df.columns[c][1] = clf THEN tag_df.rows[d][c] ELSE 0])

Completeness == out.op = "get_tag_completeness"

\* C16: for a document with a hit, precision = 1 - (NA hits + U hits) / (total hits).
C16_Precision ==
    Completeness =>
        \A d \in DOMAIN out.tag_df.rows :
            LET total == SumSeq(out.tag_df.rows[d])
                holes_hits == ClassHits(out.tag_df, d, w_NA) + ClassHits(out.tag_df, d, w_U)
            IN  total > 0 =>
                    /\ ~out.tag_pct[d].nan
                    /\ out.tag_pct[d].num * total = (total - holes_hits) * out.tag_pct[d].den

\* C17: get_tag_completeness returns; the precision of a document with a hit is in
\* [0, 1], that of a document without a hit is NaN.
C17_PrecisionBounds ==
    Completeness =>
        /\ out.status = "returned"
        /\ \A d \in DOMAIN out.tag_df.rows :
              IF SumSeq(out.tag_df.rows[d]) > 0
              THEN /\ ~out.tag_pct[d].nan
                   /\ out.tag_pct[d].den > 0
                   /\ 0 <= out.tag_pct[d].num
                   /\ out.tag_pct[d].num <= out.tag_pct[d].den
              ELSE out.tag_pct[d].nan

\* a document without a hit, and one with hits in NA and in U and precision 0
C17_Witness ==
    /\ Completeness
    /\ \E d \in DOMAIN out.tag_df.rows : SumSeq(out.tag_df.rows[d]) = 0 /\ out.tag_pct[d].nan
    /\ \E d \in DOMAIN out.tag_df.rows :
          /\ ClassHits(out.tag_df, d, w_NA) > 0
          /\ ClassHits(out.tag_df, d, w_U) > 0
          /\ ~out.tag_pct[d].nan
          /\ out.tag_pct[d].num = 0

-----------------------------------------------------------------------------
(* ngram_automatch *)

\* nestorParams.entity_rules_map: compound signature -> derived entity type
entity_rules_map ==
    << [tokens |-> <<"P", " ", "I">>, value |-> <<"P", "I">>],
       [tokens |-> <<"I", " ", "I">>, value |-> <<"I">>] >>

\* NE_map.get(x, "")
NE_map_get(x) ==
    IF x \in Range(Tokens(entity_rules_map)) THEN Lookup(entity_rules_map, "value", x)
    ELSE EmptyStr

\* NE with "" and NaN filled: vocab.NE.replace("", nan).fillna("NA")
FilledNE(r) == IF r.NE \in {EmptyStr, NaN} THEN w_NA ELSE r.NE

\* dict.pop("", None)
RECURSIVE PopEmptyKey(_)
PopEmptyKey(th) ==
    IF th = <<>> THEN <<>>
    ELSE (IF Head(th).tokens = EmptyStr THEN <<>> ELSE <<Head(th)>>) \o PopEmptyKey(Tail(th))

\* NE_dict: token -> NE, updated with alias -> NE (a NaN alias is filled with "NA"), the
\* key "" removed
NE_dict(voc1) ==
    PopEmptyKey(
        [i \in DOMAIN voc1 |-> [tokens |-> voc1[i].tokens, value |-> FilledNE(voc1[i])]]
        \o [i \in DOMAIN voc1 |->
               [tokens |-> IF voc1[i].alias = NaN THEN w_NA ELSE voc1[i].alias,
                value |-> FilledNE(voc1[i])]])

\* NE_text: the index of voc2 with tokens and aliases replaced by their NE
NE_text(voc1, token) == regex_thesaurus_normalizer(NE_dict(voc1), token)

\* the mutant: every row is overwritten
mask_all(voc2, i) == TRUE

\* mask = voc2.alias.replace("", np.nan).isna()
mask(voc2, i) == voc2[i].alias \in {EmptyStr, NaN}

ngram_automatch(voc1, voc2) ==
    [i \in DOMAIN voc2 |->
        IF mask(voc2, i)
        THEN [voc2[i] EXCEPT !.NE = NE_map_get(NE_text(voc1, voc2[i].tokens))]
        ELSE voc2[i]]

-----------------------------------------------------------------------------
(* Composite types: a 1-gram table, a 2-gram table, the analyst *)

\* the 1-gram tables: at most MaxVocab rows over two tokens, an item without alias, a
\* problem with alias, an unclassified row
Voc1ClassCands == { <<<<"I">>, EmptyStr>>, <<<<"P">>, <<"x">>>>, <<EmptyStr, EmptyStr>> }

Voc1Inputs ==
    {[i \in DOMAIN ts |-> Row(ts[i], cl[i][1], cl[i][2])] :
        <<ts, cl>> \in UNION {{ts0} \X [DOMAIN ts0 -> Voc1ClassCands] :
                                 ts0 \in {q \in SubSeqs(TagTokens) : Len(q) <= MaxVocab}}}

\* the 2-gram tokens: two tokens, and an alias followed by a token
Voc2Tokens == << <<"a", "a", " ", "a", "b">>, <<"x", " ", "a", "b">> >>

\* a 2-gram row as generate_vocabulary_df builds it, and one the analyst has settled
Voc2ClassCands == { <<EmptyStr, EmptyStr>>, <<<<"S">>, <<"y">>>> }

Voc2Inputs ==
    {[i \in DOMAIN ts |-> Row(ts[i], cl[i][1], cl[i][2])] :
        <<ts, cl>> \in UNION {{ts0} \X [DOMAIN ts0 -> Voc2ClassCands] :
                                 ts0 \in SubSeqs(Voc2Tokens) \ {<<>>}}}

InitNgram ==
    /\ vocab \in Voc1Inputs
    /\ df_mem \in Voc2Inputs
    /\ raw_text = <<>>
    /\ out = NoCall
    /\ tex = NoTex
    /\ disk = NoDisk
    /\ call = NoCall
    /\ nsteps = 0

\* ngram_automatch(vocab, df_mem): voc2 is changed in place and returned
NgramAutomatch ==
    /\ nsteps < MaxSteps
    /\ \E o \in {ngram_automatch(vocab, df_mem)} :
          /\ out' = [op |-> "ngram_automatch", voc1 |-> vocab, voc2 |-> df_mem, val |-> o,
                     nth |-> IF out.op = "ngram_automatch" /\ out.val = df_mem
                             THEN out.nth + 1 ELSE 1]
          /\ df_mem' = o
    /\ nsteps' = nsteps + 1
    /\ UNCHANGED <<vocab, raw_text, tex, disk, call>>

\* onClick_UpdateNGramVocab: the analyst sets alias, notes and NE of a 2-gram row
UpdateNGramVocab ==
    /\ nsteps < MaxSteps
    /\ \E i \in DOMAIN df_mem : \E c \in EditCands :
          df_mem' = [df_mem EXCEPT ![i].NE = c.NE, ![i].alias = c.alias, ![i].notes = c.notes]
    /\ nsteps' = nsteps + 1
    /\ UNCHANGED <<vocab, raw_text, out, tex, disk, call>>

NextNgram == NgramAutomatch \/ UpdateNGramVocab

SpecNgram == InitNgram /\ [][NextNgram]_vars

-----------------------------------------------------------------------------
(* Claims about ngram_automatch, checked under SpecNgram *)

Automatched == out.op = "ngram_automatch"

Settled(r) == r.alias # EmptyStr /\ r.alias # NaN

\* C19: ngram_automatch changes no field of a row whose alias is not empty, and returns
\* a table in which every row has an alias as it was, on the first and on a repeated call.
C19_SettledUntouched ==
    Automatched =>
        /\ DOMAIN out.val = DOMAIN out.voc2
        /\ \A i \in DOMAIN out.voc2 : Settled(out.voc2[i]) => out.val[i] = out.voc2[i]
        /\ (\A i \in DOMAIN out.voc2 : Settled(out.voc2[i])) => out.val = out.voc2

\* the second call in a row on a table of settled rows, one of which has a signature
\* with a rule whose result is not its NE
C19_Witness ==
    /\ Automatched
    /\ out.nth = 2
    /\ \A i \in DOMAIN out.voc2 : Settled(out.voc2[i])
    /\ \E i \in DOMAIN out.voc2 :
          /\ NE_text(out.voc1, out.voc2[i].tokens) \in Range(Tokens(entity_rules_map))
          /\ NE_map_get(NE_text(out.voc1, out.voc2[i].tokens)) # out.voc2[i].NE
    /\ out.val = out.voc2

\* C20: a row with empty alias gets the result of the rule of its compound signature,
\* and keeps the raw signature as NE when the signature has no rule.
C20_SignatureOrRule ==
    Automatched =>
        \A i \in DOMAIN out.voc2 :
            ~Settled(out.voc2[i]) =>
                LET sig == NE_text(out.voc1, out.voc2[i].tokens)
                IN  out.val[i].NE =
                        IF sig \in Range(Tokens(entity_rules_map))
                        THEN Lookup(entity_rules_map, "value", sig)
                        ELSE sig

\* C21: after ngram_automatch every row that had a non-empty NE before the call has the
\* same NE, a row with an empty alias included.
C21_ExplicitTypeKept ==
    Automatched =>
        \A i \in DOMAIN out.voc2 :
            IsSet(out.voc2[i].NE) => out.val[i].NE = out.voc2[i].NE

-----------------------------------------------------------------------------
(* ngram_vocab_builder *)

\* the vectorizer's word n-grams of a token list: n consecutive tokens joined by a space
word_ngrams(toks, n) ==
    [i \in 1..(IF Len(toks) >= n THEN Len(toks) - n + 1 ELSE 0) |->
        Join(SubSeq(toks, i, i + n - 1), <<" ">>)]

\* the analyzer of TokenExtractor(ngram_range=(2, 2))
analyzer_2gram(doc) == word_ngrams(analyzer(doc), 2)

\* the vocabulary a 2-gram fit on documents X learns
fit_vocabulary_2gram(X) == SortedStrs(UNION {Range(analyzer_2gram(X[d])) : d \in DOMAIN X})

\* tex = TokenExtractor(ngram_range=(2, 2)); tex.fit(X): tf is the summed tf-idf
fit_2gram(X, tf) ==
    IF fit_vocabulary_2gram(X) = <<>> THEN [status |-> "ValueError", tex |-> TagTex]
    ELSE [status |-> "ok",
          tex |-> [TagTex EXCEPT !.fitted = TRUE, !.feats = fit_vocabulary_2gram(X),
                                 !.tf_tot = tf]]

\* nestorParams.atomics: the atomic entity types
atomics == {<<"P">>, <<"I">>, <<"S">>}

\* init[mask], mask = np.isin(init.NE, atomics) & (init.alias != "")
RECURSIVE atomic_rows(_)
atomic_rows(init) ==
    IF init = <<>> THEN <<>>
    ELSE (IF Head(init).NE \in atomics /\ Head(init).alias # EmptyStr
          THEN <<Head(init)>> ELSE <<>>) \o atomic_rows(Tail(init))

\* the value of a score written as a fraction: <<numerator, denominator>>
FracValue(s) == CHOOSE p \in (0..MaxTf) \X (1..MaxTf) : Frac(p[1], p[2]) = s

IsNumber(s) == s # NaN /\ s # EmptyStr

\* a sorts before b in sort_values("score", ascending=False): NaN last, ties in order
ScoreBefore(a, b) ==
    IF a = NaN THEN FALSE
    ELSE IF b = NaN THEN TRUE
    ELSE IF IsNumber(a) /\ IsNumber(b)
         THEN FracValue(a)[1] * FracValue(b)[2] > FracValue(b)[1] * FracValue(a)[2]
         ELSE FALSE

RECURSIVE InsertByScore(_, _)
InsertByScore(r, df) ==
    IF df = <<>> THEN <<r>>
    ELSE IF ScoreBefore(r.score, Head(df).score) THEN <<r>> \o df
    ELSE <<Head(df)>> \o InsertByScore(r, Tail(df))

RECURSIVE SortedByScore(_)
SortedByScore(df) ==
    IF df = <<>> THEN <<>>
    ELSE InsertByScore(df[Len(df)], SortedByScore(SubSeq(df, 1, Len(df) - 1)))

\* DataFrame.sort_values("score", ascending=False): a column that holds numbers and ""
\* (what fillna("") made of a NaN score) cannot be compared, TypeError
sort_values_score(df) ==
    IF /\ \E i \in DOMAIN df : df[i].score = EmptyStr
       /\ \E i \in DOMAIN df : IsNumber(df[i].score)
    THEN [status |-> "TypeError", df |-> <<>>]
    ELSE [status |-> "returned", df |-> SortedByScore(df)]

\* the documents the 2-gram extractor is fitted on: replaced_text when init is None,
\* replaced_again (lines 967-975) when init is a table
replaced_again(X, vocab1, init) ==
    token_to_alias(token_to_alias(X, vocab1), DropDuplicates(vocab1 \o atomic_rows(init)))

fitted_text(X, vocab1, init) ==
    IF init.kind = "None" THEN token_to_alias(X, vocab1)
    ELSE replaced_again(X, vocab1, init.df)

NoBuild(status, X, vocab1, init) ==
    [status |-> status, vocab2 |-> <<>>, tex |-> TagTex,
     replaced_text |-> token_to_alias(X, vocab1),
     has_again |-> init.kind # "None",
     replaced_again |-> IF init.kind = "None" THEN <<>> ELSE replaced_again(X, vocab1, init.df)]

\* ngram_vocab_builder(raw_text, vocab1, init): (vocab2, tex, replaced_text, replaced_again)
ngram_vocab_builder(X, vocab1, init, tf) ==
    LET f == fit_2gram(fitted_text(X, vocab1, init), tf)
    IN  IF f.status # "ok" THEN NoBuild(f.status, X, vocab1, init)
        ELSE LET g == generate_vocabulary_df(f.tex, NoneArg, init, NoDisk)
                 v == IF init.kind = "None" THEN g
                      ELSE sort_values_score(DropDuplicates(init.df \o g.df))
             IN  [NoBuild(v.status, X, vocab1, init) EXCEPT !.vocab2 = v.df, !.tex = f.tex]

-----------------------------------------------------------------------------
(* The n-gram pipeline: documents, a 1-gram table, the 2-gram table of the last call *)

\* documents with two tokens
BuilderDocs == { <<"a", "a", " ", "a", "b">>, <<"a", "b", " ", "a", "a">> }

BuilderCorpora == SeqsUpTo(BuilderDocs, MaxDocs) \ {<<>>}

\* NE and alias of a 1-gram row: an item, a problem with an alias, unclassified
BuilderClassCands == { <<<<"I">>, EmptyStr>>, <<<<"P">>, <<"x", "x">>>>, <<EmptyStr, EmptyStr>> }

BuilderVocabs ==
    {[i \in DOMAIN ts |-> Row(ts[i], cl[i][1], cl[i][2])] :
        <<ts, cl>> \in UNION {{ts0} \X [DOMAIN ts0 -> BuilderClassCands] :
                                 ts0 \in {q \in SubSeqs(TagTokens) : Len(q) <= MaxVocab}}}

InitBuilder ==
    /\ vocab \in BuilderVocabs
    /\ raw_text \in BuilderCorpora
    /\ df_mem = <<>>
    /\ out = NoCall
    /\ tex = TagTex
    /\ disk = NoDisk
    /\ call = NoCall
    /\ nsteps = 0

\* init: None before the first call, then the 2-gram table of the last call
BuilderInit == IF df_mem = <<>> THEN NoneArg ELSE FrameArg(df_mem)

\* vocab2, tex, replaced_text, replaced_again = ngram_vocab_builder(raw_text, vocab, init)
NgramVocabBuilder ==
    /\ nsteps < MaxSteps
    /\ \E tf \in [DOMAIN fit_vocabulary_2gram(fitted_text(raw_text, vocab, BuilderInit)) -> 1..MaxTf] :
       \E o \in {ngram_vocab_builder(raw_text, vocab, BuilderInit, tf)} :
           /\ out' = [op |-> "ngram_vocab_builder", vocab1 |-> vocab, init |-> BuilderInit,
                      status |-> o.status, vocab2 |-> o.vocab2, feats |-> o.tex.feats,
                      replaced_text |-> o.replaced_text, has_again |-> o.has_again,
                      replaced_again |-> o.replaced_again]
           /\ df_mem' = IF o.status = "returned" THEN o.vocab2 ELSE df_mem
           /\ tex' = o.tex
    /\ nsteps' = nsteps + 1
    /\ UNCHANGED <<vocab, raw_text, disk, call>>

NextBuilder == NgramVocabBuilder \/ UpdateNGramVocab

SpecBuilder == InitBuilder /\ [][NextBuilder]_vars

-----------------------------------------------------------------------------
(* Claims about ngram_vocab_builder, checked under SpecBuilder *)

Built == out.op = "ngram_vocab_builder" /\ out.status = "returned"

\* C22: ngram_vocab_builder substitutes the aliases, fits the 2-gram extractor on the
\* substituted text, builds the table and runs ngram_automatch on it: the table it
\* returns is one ngram_automatch has filled, its rows being the 2-grams of the
\* substituted text.
C22_ProposalRun ==
    Built =>
        /\ out.replaced_text = token_to_alias(raw_text, out.vocab1)
        /\ out.feats = fit_vocabulary_2gram(
                           IF out.has_again THEN out.replaced_again ELSE out.replaced_text)
        /\ Range(out.feats) \subseteq Range(Tokens(out.vocab2))
        /\ out.vocab2 = ngram_automatch(out.vocab1, out.vocab2)

-----------------------------------------------------------------------------
(* Alias substitution applied twice: documents, a vocabulary table *)

\* NE and alias of a row: an alias of one word, of two letters, of two words, none
AliasClassCands ==
    { [NE |-> <<"I">>, alias |-> <<"b">>],
      [NE |-> <<"I">>, alias |-> <<"a", "a">>],
      [NE |-> <<"I">>, alias |-> <<"b", " ", "a">>],
      [NE |-> <<"X">>, alias |-> EmptyStr] }

AliasVocabs ==
    {v \in UNION {[1..n -> {Row(t, c.NE, c.alias) : t \in TokenCands, c \in AliasClassCands}] :
                     n \in 0..MaxVocab} : UniqueTokens(v)}

InitAlias ==
    /\ vocab \in AliasVocabs
    /\ raw_text \in {<<d>> : d \in Docs \cup ExtraDocs}
    /\ out = NoCall
    /\ tex = NoTex
    /\ disk = NoDisk
    /\ df_mem = <<>>
    /\ call = NoCall
    /\ nsteps = 0

\* kex.token_to_alias(replaced_text, vocab) on the text the last call returned
TokenToAliasAgain ==
    /\ out.op = "token_to_alias"
    /\ out' = [op |-> "token_to_alias_again",
               first |-> out.val,
               val |-> token_to_alias(out.val, vocab)]
    /\ UNCHANGED <<vocab, raw_text, tableVars>>

NextAlias == TokenToAlias \/ TokenToAliasAgain

SpecAlias == InitAlias /\ [][NextAlias]_vars

-----------------------------------------------------------------------------
(* Claims about repeated alias substitution, checked under SpecAlias *)

AppliedTwice == out.op = "token_to_alias_again"

\* no alias of the vocabulary is a token of the vocabulary
NoAliasIsToken(v) ==
    \A i, j \in DOMAIN v : HasAlias(v[i]) => v[i].alias # v[j].tokens

\* C23 as stated: with a vocabulary in which no alias is a vocabulary token, the second
\* substitution returns the text the first returned
C23_IdempotentNoAliasToken ==
    (AppliedTwice /\ NoAliasIsToken(vocab)) => out.val = out.first

WordOnly(s) == s # <<>> /\ \A i \in DOMAIN s : IsWordChar(s[i])

EdgeWord(t) == t # <<>> /\ IsWordChar(t[1]) /\ IsWordChar(t[Len(t)])

\* al is a whole word of t
WordOf(al, t) == \E p \in DOMAIN t : WholeWordAt(t, p, al)

\* every aliased token begins and ends with a word character, every alias is one word,
\* and no alias is a whole word of an aliased token
AliasesApart(v) ==
    \A i \in DOMAIN v :
        HasAlias(v[i]) =>
            /\ EdgeWord(v[i].tokens)
            /\ WordOnly(v[i].alias)
            /\ \A j \in DOMAIN v : HasAlias(v[j]) => ~WordOf(v[i].alias, v[j].tokens)

\* C23, amended: with a vocabulary whose aliased tokens begin and end with a word
\* character, whose aliases are single words and in which no alias is a whole word of
\* an aliased token, the second substitution returns the text the first returned.
C23_IdempotentAliasesApart ==
    (AppliedTwice /\ AliasesApart(vocab)) => out.val = out.first

\* the first substitution replaced a two-word token, the second changed nothing
C23_Witness ==
    /\ AppliedTwice
    /\ AliasesApart(vocab)
    /\ \E i \in DOMAIN vocab : HasAlias(vocab[i]) /\ ~WordOnly(vocab[i].tokens)
    /\ out.first # raw_text
    /\ out.val = out.first

-----------------------------------------------------------------------------
(* The TokenExtractor: fit, transform, and its properties ranks_, vocab_, scores_ *)

Failure(status) == [status |-> status, val |-> <<>>]

Returned(val) == [status |-> "returned", val |-> val]

\* the property ranks_ read: the check of line 307 passes (_model is always there), and
\* _tf_tot is None until a fit succeeded
read_ranks_(t) == IF ~t.fitted THEN Failure("AttributeError") ELSE Returned(ranks_(t))

\* the property vocab_ read: get_feature_names() is evaluated first and raises
\* NotFittedError when the vectorizer has no vocabulary
read_vocab_(t) == IF ~t.fitted THEN Failure("NotFittedError") ELSE Returned(vocab_(t))

\* the property scores_ read: self._tf_tot[self.ranks_]
read_scores_(t) == IF ~t.fitted THEN Failure("AttributeError") ELSE Returned(scores_(t))

\* TokenExtractor(max_features=...): a limit of one feature, and the default
TexInputs == {[NoTex EXCEPT !.max_features = m] : m \in {1, max_features}}

\* documents: one without a token, two of one token, one of two tokens
TexDocs == { <<"a">>, <<"a", "a">>, <<"a", "b">>, <<"a", "a", " ", "a", "b">> }

TexCorpora == SeqsUpTo(TexDocs, MaxDocs) \ {<<>>}

InitTex ==
    /\ tex \in TexInputs
    /\ raw_text = <<>>
    /\ out = NoCall
    /\ call = NoCall
    /\ vocab = <<>>
    /\ disk = NoDisk
    /\ df_mem = <<>>
    /\ nsteps = 0

\* tex.fit(X); call keeps the corpus and the summed tf-idf of the last fit that succeeded
FitTex ==
    /\ nsteps < MaxSteps
    /\ \E X \in TexCorpora : \E tf \in TfTotals(fit_features(tex, X), X) :
       \E o \in {fit_transform(tex, X, tf)} :
           /\ out' = [op |-> "fit", fitted |-> tex.fitted, status |-> o.status, val |-> <<>>]
           /\ tex' = o.tex
           /\ call' = IF o.status = "ok"
                      THEN [op |-> "fit", X |-> X, feats |-> o.tex.feats, tf_tot |-> o.tex.tf_tot]
                      ELSE call
    /\ nsteps' = nsteps + 1
    /\ UNCHANGED <<vocab, raw_text, disk, df_mem>>

\* tex.transform(X)
TransformTex ==
    /\ nsteps < MaxSteps
    /\ \E X \in TexCorpora : \E tf \in TfTotals(tex.feats, X) :
       \E o \in {transform(tex, X, tf)} :
           /\ out' = [op |-> "transform", fitted |-> tex.fitted, status |-> o.status, val |-> <<>>]
           /\ tex' = o.tex
    /\ nsteps' = nsteps + 1
    /\ UNCHANGED <<vocab, raw_text, disk, df_mem, call>>

ReadOutcome(op, o) == [op |-> op, fitted |-> tex.fitted, status |-> o.status, val |-> o.val]

\* tex.ranks_
ReadRanks ==
    /\ out' = ReadOutcome("ranks_", read_ranks_(tex))
    /\ UNCHANGED <<vocab, raw_text, tex, disk, df_mem, call, nsteps>>

\* tex.vocab_
ReadVocab ==
    /\ out' = ReadOutcome("vocab_", read_vocab_(tex))
    /\ UNCHANGED <<vocab, raw_text, tex, disk, df_mem, call, nsteps>>

\* tex.scores_
ReadScores ==
    /\ out' = ReadOutcome("scores_", read_scores_(tex))
    /\ UNCHANGED <<vocab, raw_text, tex, disk, df_mem, call, nsteps>>

NextTex == FitTex \/ TransformTex \/ ReadRanks \/ ReadVocab \/ ReadScores

SpecTex == InitTex /\ [][NextTex]_vars

-----------------------------------------------------------------------------
(* Claims about the TokenExtractor, checked under SpecTex *)

\* the summed tf-idf of token f over the corpus of the last fit that succeeded
FitScore(f) == call.tf_tot[CHOOSE i \in DOMAIN call.feats : call.feats[i] = f]

\* C24: once a fit has succeeded, also after later transform calls, vocab_ lists at most
\* max_features tokens, in non-increasing order of their summed tf-idf over the corpus
\* that was passed to fit.
C24_RankedByFitCorpus ==
    tex.fitted =>
        /\ Len(vocab_(tex)) <= tex.max_features
        /\ \A i, j \in DOMAIN vocab_(tex) :
              i < j => FitScore(vocab_(tex)[i]) >= FitScore(vocab_(tex)[j])

\* C25: on an extractor on which no fit has succeeded, transform, ranks_, vocab_ and
\* scores_ fail with NotFittedError.
C25_NotFittedDownstream ==
    (out.op \in {"transform", "ranks_", "vocab_", "scores_"} /\ ~out.fitted) =>
        out.status = "NotFittedError"

\* the summed tf-idf of the ranked tokens, in rank order
RankedTotals(t) == [k \in DOMAIN ranks_(t) |-> t.tf_tot[ranks_(t)[k]]]

\* C26: scores_ returns the min-max normalized scores, 1 for the top-ranked token and 0
\* for the lowest, and 1.0 for every entry when all ranked tokens have the same score.
C26_NormalizedScores ==
    (out.op = "scores_" /\ out.fitted) =>
        /\ out.status = "returned"
        /\ LET tot == RankedTotals(tex)
               lo == SeqMin(tot)
               hi == SeqMax(tot)
           IN  \A k \in DOMAIN out.val :
                   out.val[k] = IF hi = lo THEN Frac(1, 1) ELSE Frac(tot[k] - lo, hi - lo)

-----------------------------------------------------------------------------
(* NLPSelect.transform *)

\* a DataFrame of text columns: the column labels and, per row, the cells in column order
Frame(columns, rows) == [columns |-> columns, rows |-> rows]

\* self.columns: a position, a label, a list of positions, a list of labels, a mixed list
ColumnsArg(kind, val) == [kind |-> kind, val |-> val]

\* the position of the column labelled name
ColumnPos(X, name) == CHOOSE c \in DOMAIN X.columns : X.columns[c] = name

\* nlp_cols (lines 101-114), as the positions of the selected columns
nlp_cols(X, columns) ==
    CASE columns.kind = "list_int" -> [i \in DOMAIN columns.val |-> columns.val[i] + 1]
      [] columns.kind = "list_str" -> [i \in DOMAIN columns.val |-> ColumnPos(X, columns.val[i])]
      [] columns.kind = "int" -> <<columns.val + 1>>
      [] columns.kind = "str" -> <<ColumnPos(X, columns.val)>>

\* astype(str) of a cell: a NaN cell becomes the text "nan"
astype_str(c) == IF c = NaN THEN <<"n", "a", "n">> ELSE c

\* _robust_cat for one row: astype(str) comes first, so the fillna("") and the
\* na_rep="" after it find no NaN
robust_cat(row, cols) ==
    IF Len(cols) <= 1 THEN astype_str(row[cols[1]])
    ELSE Join([i \in DOMAIN cols |-> astype_str(row[cols[i]])], <<" ">>)

\* string.punctuation, among the characters of the model
punctuation == {"-", "_"}

\* .str.replace("\n", " ") and .str.replace("[{}]".format(string.punctuation), " ")
Spaced(text) ==
    [i \in DOMAIN text |-> IF text[i] = "\n" \/ text[i] \in punctuation THEN " " ELSE text[i]]

\* the first key, in the order of the dict, that matches at p; <<>> when none does
RECURSIVE FirstKeyAt(_, _, _)
FirstKeyAt(keys, text, p) ==
    IF keys = <<>> THEN <<>>
    ELSE IF LiteralAt(text, p, Head(keys)) THEN Head(keys)
    ELSE FirstKeyAt(Tail(keys), text, p)

\* str.replace(rx, lambda match: special_replace[match.group(0)]), rx the alternation of
\* the escaped keys in the order of the dict
RECURSIVE SpecialFrom(_, _, _)
SpecialFrom(special_replace, text, p) ==
    IF p > Len(text) THEN <<>>
    ELSE LET k == FirstKeyAt(Tokens(special_replace), text, p)
         IN  IF k # <<>>
             THEN Lookup(special_replace, "value", k) \o SpecialFrom(special_replace, text, p + Len(k))
             ELSE <<text[p]>> \o SpecialFrom(special_replace, text, p + 1)

NoDict == [given |-> FALSE, items |-> <<>>]

Dict(items) == [given |-> TRUE, items |-> items]

\* _clean_text for one string
clean_text(text, special_replace) ==
    IF special_replace.given THEN SpecialFrom(special_replace.items, Spaced(Lower(text)), 1)
    ELSE Spaced(Lower(text))

\* NLPSelect.transform(X): the object's together and clean_together, and the outcome.
\* A mixed list of columns raises Exception; the pattern of an empty dict matches the
\* empty string, which is no key of the dict
NLPSelect_transform(nlp, X) ==
    IF nlp.columns.kind = "mixed"
    THEN [status |-> "Exception", together |-> <<>>, clean_together |-> <<>>]
    ELSE LET together == [r \in DOMAIN X.rows |-> robust_cat(X.rows[r], nlp_cols(X, nlp.columns))]
         IN  IF nlp.special_replace.given /\ nlp.special_replace.items = <<>> /\ X.rows # <<>>
             THEN [status |-> "KeyError", together |-> together, clean_together |-> <<>>]
             ELSE [status |-> "returned", together |-> together,
                   clean_together |-> [r \in DOMAIN together |->
                                          clean_text(together[r], nlp.special_replace)]]

-----------------------------------------------------------------------------
(* Text selection: a dataset, an NLPSelect *)

\* the cells: a missing one, an empty one, lower case, upper case, a hyphen, a newline
CellCands == { NaN, EmptyStr, <<"a", "b">>, <<"A", "B">>, <<"a", "-", "b">>, <<"a", "\n", "b">> }

ColumnLabels == <<"x", "y">>

\* datasets of two text columns
Datasets ==
    {Frame(ColumnLabels, rows) :
        rows \in SeqsUpTo({<<c1, c2>> : c1 \in CellCands, c2 \in CellCands}, MaxDocs) \ {<<>>}}

ColumnsCands ==
    { ColumnsArg("int", 0), ColumnsArg("int", 1), ColumnsArg("str", "y"),
      ColumnsArg("list_int", <<0>>), ColumnsArg("list_int", <<0, 1>>),
      ColumnsArg("list_int", <<1, 0>>), ColumnsArg("list_str", <<"x", "y">>),
      ColumnsArg("mixed", <<>>) }

\* special_replace: none, an empty dict, one key, a key and a longer one in both orders
SpecialCands ==
    { NoDict, Dict(<<>>),
      Dict(<< [tokens |-> <<"a">>, value |-> <<"x">>] >>),
      Dict(<< [tokens |-> <<"a">>, value |-> <<"x">>], [tokens |-> <<"a", "b">>, value |-> <<"y">>] >>),
      Dict(<< [tokens |-> <<"a", "b">>, value |-> <<"y">>], [tokens |-> <<"a">>, value |-> <<"x">>] >>) }

\* NLPSelect(columns, special_replace): together and clean_together are None
InitSelect ==
    /\ df_mem \in Datasets
    /\ call \in {[op |-> "NLPSelect", columns |-> c, special_replace |-> sr,
                  together |-> <<>>, clean_together |-> <<>>] :
                     c \in ColumnsCands, sr \in SpecialCands}
    /\ out = NoCall
    /\ raw_text = <<>>
    /\ vocab = <<>>
    /\ tex = NoTex
    /\ disk = NoDisk
    /\ nsteps = 0

\* raw_text = nlp_select.transform(df)
NLPSelectTransform ==
    /\ call.op = "NLPSelect"
    /\ \E o \in {NLPSelect_transform(call, df_mem)} :
          /\ out' = [op |-> "NLPSelect.transform", status |-> o.status,
                     val |-> o.clean_together]
          /\ call' = [call EXCEPT !.together = o.together,
                                  !.clean_together = o.clean_together]
          /\ raw_text' = IF o.status = "returned" THEN o.clean_together ELSE raw_text
    /\ UNCHANGED <<vocab, tex, disk, df_mem, nsteps>>

NextSelect == NLPSelectTransform

SpecSelect == InitSelect /\ [][NextSelect]_vars

-----------------------------------------------------------------------------
(* Claims about NLPSelect, checked under SpecSelect *)

Selected == out.op = "NLPSelect.transform"

\* the keys that match at p
KeysAt(special_replace, text, p) ==
    {k \in Range(Tokens(special_replace)) : LiteralAt(text, p, k)}

\* the substitution as the claim states it: at each position the longest matching key
RECURSIVE LongestFirstFrom(_, _, _)
LongestFirstFrom(special_replace, text, p) ==
    IF p > Len(text) THEN <<>>
    ELSE IF KeysAt(special_replace, text, p) # {}
         THEN LET k == Longest(KeysAt(special_replace, text, p))
              IN  Lookup(special_replace, "value", k)
                      \o LongestFirstFrom(special_replace, text, p + Len(k))
         ELSE <<text[p]>> \o LongestFirstFrom(special_replace, text, p + 1)

\* C27: the text NLPSelect.transform returns is the merged text, lowercased, newlines and
\* punctuation replaced by spaces, in which then, left to right, the longest matching key
\* of special_replace is replaced by its value, whatever the order of the keys.
C27_LongestKeyFirst ==
    (Selected /\ out.status = "returned" /\ call.special_replace.given) =>
        \A r \in DOMAIN out.val :
            out.val[r] = LongestFirstFrom(call.special_replace.items,
                                          Spaced(Lower(call.together[r])), 1)

\* a cell as the claim has it merged: a missing one as the empty string
Coerced(c) == IF c = NaN THEN EmptyStr ELSE c

\* C28: NLPSelect.transform does not fail on a missing cell, and the merged text of a row
\* is its selected cells, a missing one as the empty string, joined by single spaces.
C28_NullAsEmpty ==
    (Selected /\ call.columns.kind # "mixed") =>
        /\ out.status \in {"returned", "KeyError"}
        /\ \A r \in DOMAIN df_mem.rows :
              LET cols == nlp_cols(df_mem, call.columns)
              IN  call.together[r] =
                      Join([i \in DOMAIN cols |-> Coerced(df_mem.rows[r][cols[i]])], <<" ">>)

-----------------------------------------------------------------------------
(* Claims about the rows of iob_extractor, checked under SpecMatch *)

Extracted == out.op = "iob_extractor"

\* the spans of document d: the matches of the vocabulary-or-token pattern, left to right
SpansOf(d) == findall(regex_match_vocab(DictKeys(Tokens(vocab)), TRUE), Lower(raw_text[d]))

\* the span is a vocabulary token with an entity type
HasType(text) == HasLabel(vocab, text) /\ IsSet(Lookup(vocab, "NE", text))

\* C29: every row of iob_extractor has a token and a label, the label is never a bare
\* "B" or "I"; a span that is no vocabulary token, or one whose NE is missing or empty,
\* has type "U" and label "O"; a document without a match has no row.
C29_TypedSpans ==
    Extracted =>
        /\ \A i \in DOMAIN out.val :
              /\ out.val[i].token # NaN
              /\ out.val[i].NE # NaN
              /\ out.val[i].NE \notin {<<"B">>, <<"I">>}
              /\ out.tidy[i].NE # NaN
              /\ (out.tidy[i].text # NaN /\ ~HasType(out.tidy[i].text)) =>
                     /\ out.tidy[i].NE = <<"U">>
                     /\ out.val[i].NE = <<"O">>
        /\ \A d \in DOMAIN raw_text :
              SpansOf(d) = <<>> => RowsOfDoc(out.val, d - 1) = <<>>

\* the constituent tokens of document d: its spans, each cut at spaces and underscores
ConstituentTokens(d) ==
    Concat([k \in DOMAIN SpansOf(d) |-> NonEmpty(Split(SpansOf(d)[k]))])

\* the entity type of a label: what follows "B-" or "I-", "O" for "O"
LabelType(label) == IF label = <<"O">> THEN label ELSE SubSeq(label, 3, Len(label))

\* C30: the rows of iob_extractor are in document order; the rows of a document are the
\* constituent tokens of its spans, one row each, in the order of the text; the rows of
\* one span have the span's entity type and the document's doc_id.
C30_RowsInTextOrder ==
    Extracted =>
        /\ \A i, j \in DOMAIN out.val : i < j => out.val[i].doc_id <= out.val[j].doc_id
        /\ \A d \in DOMAIN raw_text :
              LET rows == RowsOfDoc(out.val, d - 1)
              IN  [k \in DOMAIN rows |-> rows[k].token] = ConstituentTokens(d)
        /\ \A i, j \in DOMAIN out.tidy :
              out.tidy[i].token_id = out.tidy[j].token_id =>
                  /\ out.tidy[i].NE = out.tidy[j].NE
                  /\ out.val[i].doc_id = out.val[j].doc_id
                  /\ LabelType(out.val[i].NE) = LabelType(out.val[j].NE)

====
